---- MODULE Spec2Model ----
(***************************************************************************)
(* Log-structured key-value store of db/datastore: the segmented on-disk   *)
(* log, the in-memory hash index, the writer goroutine behind writeCh, the *)
(* worker queue that serves Get, recovery on NewDb, Merge and Close.       *)
(* The load balancer of cmd/lb, its health check beside its request        *)
(* handlers, is a second machine over variables of its own.                *)
(*                                                                         *)
(* Every goroutine is a process with a program counter; a step is one      *)
(* statement (or one critical section) of the Go code.  The directory is   *)
(* a function from segment ids to the sequence of records in the file.     *)
(***************************************************************************)
EXTENDS Integers, Sequences, FiniteSets, TLC

(* ------------------------------ bounds -------------------------------- *)
(* calls of Put and Merge the sequential client makes in all               *)
MaxCalls == 3
(* calls of Put the concurrent callers make in all                         *)
MaxPuts == 2
(* records of a segment file that recovery finds, and the length of a      *)
(* value whose record is longer than the buffer of recover                 *)
MaxRecords == 2
LargeVal == 8180
(* runs of the periodic health check of the load balancer, and backends    *)
(* that go down                                                            *)
MaxChecks == 1
MaxDown == 1

(* the keys, and the values by their length in bytes                       *)
Keys == {1, 2}
Vals == {1, 2}

(* the places for calls of Put and of Get in flight                        *)
Putters == {1, 2}
Getters == {1, 2}

(* DbOptions of NewDb: with 15 bytes a record of value 2 fills a segment   *)
(* and a record of value 1 does not                                        *)
WorkerPoolSize == 1
MaxSegmentSize == 15

Workers == 1..WorkerPoolSize

(* ------------------------------ records ------------------------------- *)
(* A key is one byte long; the value v is v bytes long.                    *)
KeyLen(k) == 1
ValLen(v) == v

(* total_size = 4 + 4 + key_len + 4 + value_len                            *)
EntrySize(k, v) == 12 + KeyLen(k) + ValLen(v)

Entry(k, v) == [key |-> k, val |-> v]

RecSize(r) == EntrySize(r.key, r.val)

RECURSIVE FileLen(_)
FileLen(f) == IF f = <<>> THEN 0 ELSE RecSize(Head(f)) + FileLen(Tail(f))

(* byte offset at which the i-th record of f starts                        *)
OffsetOf(f, i) == FileLen(SubSeq(f, 1, i - 1))

(* ------------------------------ results ------------------------------- *)
Ok(v) == [err |-> "nil", val |-> v]
Err(e) == [err |-> e, val |-> 0]
ErrNotFound == Err("record does not exist")
ErrDbClosed == Err("db is closed")
ErrWorkerQueueIsClosed == Err("worker queue is closed")
ErrNoFile == Err("open: no such file")
ErrEOF == Err("EOF")
ErrCorrupt == Err("corrupt record")
ErrCorruptedFile == Err("corrupted file")
ErrIO == Err("input/output error")
Nil == Err("nil")
NoResult == Err("pending")

(* readValue on a reader positioned at byte off of the file f              *)
readValue(f, off) ==
    IF \E i \in 1..Len(f) : OffsetOf(f, i) = off
    THEN Ok(f[CHOOSE i \in 1..Len(f) : OffsetOf(f, i) = off].val)
    ELSE IF off >= FileLen(f) THEN ErrEOF ELSE ErrCorrupt

(* --------------------------- index entries ---------------------------- *)
hashEntry(seg, off) == [seg |-> seg, off |-> off]

(* an index that files every key under the entry it has just been given   *)
setIndexAll(idx, key, seg, off) ==
    [k \in (DOMAIN idx) \cup {key} |-> hashEntry(seg, off)]

(* db.index[key] = hashEntry{segmentIndex, segmentOffset}                  *)
setIndex(idx, key, seg, off) ==
    [k \in (DOMAIN idx) \cup {key} |-> IF k = key THEN hashEntry(seg, off) ELSE idx[k]]

(* a lookup whose ok flag is always true                                   *)
getIndexAlwaysOk(idx, key) ==
    IF key \in DOMAIN idx
    THEN [entry |-> idx[key], found |-> TRUE]
    ELSE [entry |-> hashEntry(0, 0), found |-> TRUE]

(* segmentInfo, ok := db.index[key]: a missing key yields the zero entry   *)
(* and ok = false                                                          *)
getIndex(idx, key) ==
    IF key \in DOMAIN idx
    THEN [entry |-> idx[key], found |-> TRUE]
    ELSE [entry |-> hashEntry(0, 0), found |-> FALSE]

(* a read that leaves out the Seek                                         *)
ReadEntryNoSeek(d, e) ==
    IF e.seg \notin DOMAIN d THEN ErrNoFile ELSE readValue(d[e.seg], 0)

(* os.Open(segmentPath), Seek(segmentOffset), readValue(reader)            *)
ReadEntry(d, e) ==
    IF e.seg \notin DOMAIN d THEN ErrNoFile ELSE readValue(d[e.seg], e.off)

(* db.get on an open store whose writer is idle: lookup, then read         *)
GetValue(idx, d, k) ==
    IF getIndex(idx, k).found THEN ReadEntry(d, getIndex(idx, k).entry) ELSE ErrNotFound

(* ------------------------------ handles ------------------------------- *)
(* An open write handle names the segment it was opened on; linked is      *)
(* FALSE once that path has been renamed over or removed, so that writes   *)
(* through the handle reach an inode no path leads to.                     *)
Handle(seg) == [open |-> TRUE, seg |-> seg, linked |-> TRUE]
ClosedHandle == [open |-> FALSE, seg |-> 0, linked |-> FALSE]

Unlink(h, gone) == IF h.open /\ h.seg \in gone THEN [h EXCEPT !.linked = FALSE] ELSE h

(* a write that replaces the last record of the file when it has the same *)
(* key                                                                     *)
AppendToInPlace(d, h, r) ==
    IF h.open /\ h.linked /\ h.seg \in DOMAIN d
    THEN [d EXCEPT ![h.seg] = IF Len(@) > 0 /\ @[Len(@)].key = r.key
                             THEN [@ EXCEPT ![Len(@)] = r]
                             ELSE Append(@, r)]
    ELSE d

(* segment.Write(bytes) through an O_APPEND handle                         *)
AppendTo(d, h, r) ==
    IF h.open /\ h.linked /\ h.seg \in DOMAIN d
    THEN [d EXCEPT ![h.seg] = Append(@, r)]
    ELSE d

(* os.OpenFile(path, O_APPEND|O_WRONLY|O_CREATE)                            *)
OpenCreate(d, seg) ==
    IF seg \in DOMAIN d THEN d
    ELSE [i \in (DOMAIN d) \cup {seg} |-> IF i = seg THEN <<>> ELSE d[i]]

(* os.Remove of the segments in gone                                       *)
RemoveFiles(d, gone) == [i \in (DOMAIN d) \ gone |-> d[i]]

(* os.Rename(swapFilename, segmentPath): the swap file becomes segment 0   *)
RenameSwap(d, recs) == [i \in (DOMAIN d) \cup {0} |-> IF i = 0 THEN recs ELSE d[i]]

(* ------------------------------ recovery ------------------------------ *)
(* recoverSegmentIndex: the highest segment id in the directory, or -1     *)
recoverSegmentIndex(d) ==
    IF DOMAIN d = {} THEN -1 ELSE CHOOSE m \in DOMAIN d : \A i \in DOMAIN d : i <= m

(* the inner loop of recover on one segment: setIndex(e.key) at the        *)
(* running offset, which then advances by the record's size                *)
RECURSIVE ReplaySegment(_, _, _, _)
ReplaySegment(idx, seg, f, off) ==
    IF f = <<>> THEN idx
    ELSE ReplaySegment(setIndex(idx, Head(f).key, seg, off), seg, Tail(f),
                       off + RecSize(Head(f)))

(* the outer loop of recover: segments i .. last in ascending order        *)
RECURSIVE ReplayFrom(_, _, _, _)
ReplayFrom(idx, d, i, last) ==
    IF i > last THEN idx
    ELSE ReplayFrom(ReplaySegment(idx, i, d[i], 0), d, i + 1, last)

(* os.OpenFile(segmentPath, O_RDONLY) succeeds for every i of the loop     *)
RecoverOk(d) == \A i \in 0..recoverSegmentIndex(d) : i \in DOMAIN d

RecoverIndex(d) == ReplayFrom(<<>>, d, 0, recoverSegmentIndex(d))

(* db.segmentIndex when the loop of recover is over                        *)
RecoverSegment(d) == IF recoverSegmentIndex(d) < 0 THEN 0 ELSE recoverSegmentIndex(d)

(* loadSegment: db.segmentOffset = 0 for the segment it has opened         *)
loadSegmentOffset(d, seg) == 0

(* ------------------------------- state -------------------------------- *)
VARIABLES
    dir,            \* segment id -> records of the file <id>.seg
    swap,           \* the swap file of Merge
    index,          \* db.index
    segment,        \* db.segment
    segmentOffset,  \* db.segmentOffset
    segmentIndex,   \* db.segmentIndex
    isClosed,       \* db.isClosed
    writeChClosed,  \* close(db.writeCh) has run
    mu,             \* db.mu: "free", "writer"
    wpc, wmsg,      \* the goroutine db.write and the message it holds
    ppc, pkey, pval, pres,          \* callers of Put
    workerPool,     \* q.workerPool
    msgQueue,       \* q.msgQueue
    msgQueueClosed, \* close(q.msgQueue) has run
    qIsClosed,      \* q.isClosed
    chClosed,       \* worker inboxes that were closed
    qmu,            \* q.mu: "free", "dispatcher"
    dpc, dmsg, dworker,             \* the dispatcher goroutine of start
    wkpc, wkmsg, wkentry, wkres,    \* the goroutines of spawnWorker
    gpc, gkey, gres,                \* callers of Get
    mpc, mst, mres,                 \* the caller of Merge and its locals
    cpc, cres,                      \* the caller of Close
    panicked,       \* a goroutine panicked: the process is gone
    latest,         \* key -> value of the last Put the writer wrote, 0 if none
    acked,          \* key -> value of the last Put answered with nil, 0 if none
    everPut,        \* keys some Put was called with, in any session
    count,          \* calls made so far that were not refused: Put, Merge
    gfloor,         \* Get caller -> a Put on its key had been answered when it began
    gok,            \* Get caller -> values of that Put and of the Puts written after it
    pristine,       \* no Merge and no Close was ever called
    seen,           \* key -> what Get returned when the previous session ended
    mghost,         \* what held when the running Merge was called
    torn,           \* segment id -> the torn tail a crash left at the end of its file
    rpc, rst, rres, \* db.recover: its position, its locals and what it returned
    healthServersPool,  \* cmd/lb: the servers the last health check found healthy
    backendUp,          \* server -> it answers /health and requests with 200
    hcpc, hci, checks,  \* healthCheck: its position, its loop index, runs so far
    hpc,                \* request -> position of its handler
    remoteAddr,         \* request -> r.RemoteAddr
    hashSum,            \* request -> the first eight bytes of the hash of its address
    serverIndex,        \* request -> hashSum % len(healthServersPool)
    hpool, hfirst,      \* request -> the half of the slice header read first
    response            \* request -> what the client received

dbVars == <<index, segment, segmentOffset, segmentIndex, isClosed, writeChClosed, mu>>
diskVars == <<dir, swap>>
writerVars == <<wpc, wmsg>>
putVars == <<ppc, pkey, pval, pres>>
queueVars == <<workerPool, msgQueue, msgQueueClosed, qIsClosed, chClosed, qmu>>
dispVars == <<dpc, dmsg, dworker>>
workerVars == <<wkpc, wkmsg, wkentry, wkres>>
getVars == <<gpc, gkey, gres>>
mergeVars == <<mpc, mst, mres>>
closeVars == <<cpc, cres>>
ghostVars == <<latest, acked, everPut, count, gfloor, gok, pristine, seen, mghost>>
recoverVars == <<torn, rpc, rst, rres>>
lbVars == <<healthServersPool, backendUp, hcpc, hci, checks, hpc, remoteAddr,
            hashSum, serverIndex, hpool, hfirst, response>>

vars == <<dbVars, diskVars, writerVars, putVars, queueVars, dispVars, workerVars,
          getVars, mergeVars, closeVars, panicked, ghostVars, recoverVars, lbVars>>

Unknown == Err("unknown")
RecoverLocals == [i |-> 0, last |-> 0 - 1, pos |-> 1, avail |-> 0]
NoEntry == hashEntry(0 - 1, 0 - 1)
NoMsg == [key |-> 0, val |-> 0, from |-> 0, err |-> FALSE]
NoSwap == [exists |-> FALSE, recs |-> <<>>]
MergeLocals == [index |-> <<>>, offset |-> 0, snap |-> {}, done |-> {}, key |-> 0,
                segmentIndex |-> 0, segment |-> ClosedHandle]
NoMergeGhost == [quiet |-> FALSE, keys |-> {}, acked |-> [k \in Keys |-> 0]]

(* newWorkerQueue: workerCount inboxes in the pool, one goroutine each     *)
NewWorkerPool == [i \in 1..WorkerPoolSize |-> i]

(* NewDb on the directory d: recover replays the segments, loadSegment     *)
(* opens the last one (creating 0.seg in an empty directory)               *)
NewDb(d) ==
    [index |-> RecoverIndex(d),
     segmentIndex |-> RecoverSegment(d),
     segmentOffset |-> loadSegmentOffset(d, RecoverSegment(d)),
     segment |-> Handle(RecoverSegment(d)),
     dir |-> OpenCreate(d, RecoverSegment(d))]

(* ---------------------------- load balancer --------------------------- *)
(* cmd/lb: server1:8080, server2:8080, server3:8080                        *)
serversPool == <<1, 2, 3>>
Servers == {serversPool[i] : i \in 1..Len(serversPool)}

(* the handlers of the requests in flight                                  *)
Requests == {1, 2}

(* what a client receives: the status and the backend the body came from   *)
NoResponse == [code |-> 0 - 1, from |-> 0]
Forwarded(dst) == [code |-> 200, from |-> dst]
ServiceUnavailable(dst) == [code |-> 503, from |-> dst]
BadGateway == [code |-> 502, from |-> 0]
(* the handler returned and wrote nothing: net/http answers 200, no body   *)
EmptyOK == [code |-> 200, from |-> 0]
(* the handler panicked: net/http recovers and drops the connection        *)
Aborted == [code |-> 0, from |-> 0]

NoAddr == [host |-> <<>>, port |-> 0]
NoSum == <<0, 0, 0, 0, 0, 0, 0, 0>>

(* main before frontend.Start: the first healthCheck ran to its end with   *)
(* every backend up                                                        *)
InitBalancer ==
    /\ healthServersPool = serversPool
    /\ backendUp = [s \in Servers |-> TRUE]
    /\ hcpc = "idle" /\ hci = 0 /\ checks = 0
    /\ hpc = [r \in Requests |-> "idle"]
    /\ remoteAddr = [r \in Requests |-> NoAddr]
    /\ hashSum = [r \in Requests |-> NoSum]
    /\ serverIndex = [r \in Requests |-> 0]
    /\ hpool = [r \in Requests |-> <<>>]
    /\ hfirst = [r \in Requests |-> "none"]
    /\ response = [r \in Requests |-> NoResponse]

(* NewDb on an empty directory                                             *)
Init ==
    /\ swap = NoSwap
    /\ index = NewDb(<<>>).index
    /\ segmentIndex = NewDb(<<>>).segmentIndex
    /\ segmentOffset = NewDb(<<>>).segmentOffset
    /\ segment = NewDb(<<>>).segment
    /\ dir = NewDb(<<>>).dir
    /\ isClosed = FALSE /\ writeChClosed = FALSE /\ mu = "free"
    /\ wpc = "recv" /\ wmsg = NoMsg
    /\ ppc = [p \in Putters |-> "idle"] /\ pkey = [p \in Putters |-> 0]
    /\ pval = [p \in Putters |-> 0] /\ pres = [p \in Putters |-> NoResult]
    /\ workerPool = NewWorkerPool /\ msgQueue = <<>>
    /\ msgQueueClosed = FALSE /\ qIsClosed = FALSE
    /\ chClosed = [w \in Workers |-> FALSE] /\ qmu = "free"
    /\ dpc = "recv" /\ dmsg = 0 /\ dworker = 0
    /\ wkpc = [w \in Workers |-> "recv"] /\ wkmsg = [w \in Workers |-> 0]
    /\ wkentry = [w \in Workers |-> NoEntry] /\ wkres = [w \in Workers |-> NoResult]
    /\ gpc = [g \in Getters |-> "idle"] /\ gkey = [g \in Getters |-> 0]
    /\ gres = [g \in Getters |-> NoResult]
    /\ mpc = "idle" /\ mst = MergeLocals /\ mres = NoResult
    /\ cpc = "idle" /\ cres = NoResult
    /\ panicked = FALSE
    /\ latest = [k \in Keys |-> 0] /\ acked = [k \in Keys |-> 0]
    /\ everPut = {} /\ count = 0
    /\ gfloor = [g \in Getters |-> FALSE] /\ gok = [g \in Getters |-> {}]
    /\ pristine = TRUE
    /\ seen = [k \in Keys |-> Unknown]
    /\ mghost = NoMergeGhost
    /\ torn = <<>>
    /\ rpc = "done" /\ rst = RecoverLocals /\ rres = Nil
    /\ InitBalancer

(* ------------------------------ helpers ------------------------------- *)
InCall(pc) == pc # "idle"

(* no call of the client is running                                        *)
ClientIdle ==
    /\ \A p \in Putters : ~InCall(ppc[p])
    /\ \A g \in Getters : ~InCall(gpc[g])
    /\ ~InCall(mpc)
    /\ ~InCall(cpc)

(* Close has returned on this Db                                           *)
CloseReturned == isClosed /\ cpc \in {"idle", "done", "closed"}

(* guards that let every call through, and a read lock that never waits   *)
DoClosedCheckOff(closed) == FALSE
CloseClosedCheckOff(closed) == FALSE
RLockFreeAlways(m) == TRUE

(* the guard at the head of Put and Merge, and of db.get                   *)
DbClosedCheck(closed) == closed

(* the guard at the head of workerQueue.Do                                 *)
DoClosedCheck(closed) == closed

(* the guard at the head of Db.Close                                       *)
CloseClosedCheck(closed) == closed

(* db.mu.RLock() can be taken                                              *)
RLockFree(m) == m = "free"

(* db.mu.Lock() can be taken                                               *)
LockFree(m) == m = "free"

(* the rollover test of write after the offset has advanced                *)
SegmentFull(off) == off >= MaxSegmentSize

(* --------------------------------- Put -------------------------------- *)
(* Put(k, v) up to its send: if db.isClosed { return ErrDbClosed }         *)
StartPut(p, k, v) ==
    /\ ~panicked
    /\ ppc[p] = "idle"
    /\ IF DbClosedCheck(isClosed)
       THEN /\ ppc' = [ppc EXCEPT ![p] = "done"]
            /\ pres' = [pres EXCEPT ![p] = ErrDbClosed]
            /\ UNCHANGED <<everPut, count, seen>>
       ELSE /\ count < MaxCalls
            /\ ppc' = [ppc EXCEPT ![p] = "send"]
            /\ pres' = pres
            /\ everPut' = everPut \cup {k}
            /\ count' = count + 1
            /\ seen' = [seen EXCEPT ![k] = Unknown]
    /\ pkey' = [pkey EXCEPT ![p] = k]
    /\ pval' = [pval EXCEPT ![p] = v]
    /\ UNCHANGED <<dbVars, diskVars, writerVars, queueVars, dispVars, workerVars,
                   getVars, mergeVars, closeVars, panicked, latest, acked, gfloor, gok,
                   pristine, mghost>>
    /\ UNCHANGED <<recoverVars, lbVars>>

(* the caller has the result of Put                                        *)
PutReturn(p) ==
    /\ ~panicked
    /\ ppc[p] = "done"
    /\ ppc' = [ppc EXCEPT ![p] = "idle"]
    /\ pkey' = [pkey EXCEPT ![p] = 0]
    /\ pval' = [pval EXCEPT ![p] = 0]
    /\ pres' = [pres EXCEPT ![p] = NoResult]
    /\ UNCHANGED <<dbVars, diskVars, writerVars, queueVars, dispVars, workerVars,
                   getVars, mergeVars, closeVars, panicked, ghostVars>>
    /\ UNCHANGED <<recoverVars, lbVars>>

(* db.writeCh <- writeMsg{e, errCh} by a caller that passed the check of   *)
(* db.isClosed before close(db.writeCh) ran: a send on a closed channel    *)
(* panics                                                                  *)
PutSendClosed(p) ==
    /\ ~panicked
    /\ ppc[p] = "send"
    /\ writeChClosed
    /\ panicked' = TRUE
    /\ UNCHANGED <<dbVars, diskVars, writerVars, putVars, queueVars, dispVars,
                   workerVars, getVars, mergeVars, closeVars, ghostVars>>
    /\ UNCHANGED <<recoverVars, lbVars>>

(* ------------------------------- writer ------------------------------- *)
(* a writer that takes every write for a success                           *)
WriteFailedNever(msg) == FALSE

(* if err != nil, on the result of segment.Write                           *)
WriteFailed(msg) == msg.err

(* a writer that never advances its offset                                 *)
NextOffsetStays(off, n) == off

(* db.segmentOffset += int64(n)                                            *)
NextOffset(off, n) == off + n

(* a rollover that leaves the old segment open when the new one cannot be  *)
(* opened                                                                  *)
AfterFailedOpenStillOpen(h) == h

(* db.segment after db.segment.Close() and a loadSegment that failed: the  *)
(* closed file of the old segment                                          *)
AfterFailedOpen(h) == [h EXCEPT !.open = FALSE]

(* msg := <-db.writeCh; db.mu.Lock(); n, err := db.segment.Write(...)      *)
WriteRecv(p) ==
    /\ ~panicked
    /\ wpc = "recv"
    /\ ppc[p] = "send"
    /\ ~writeChClosed
    /\ LockFree(mu)
    /\ mu' = "writer"
    /\ ppc' = [ppc EXCEPT ![p] = "wait"]
    /\ wmsg' = [key |-> pkey[p], val |-> pval[p], from |-> p, err |-> ~segment.open]
    /\ wpc' = "reply"
    /\ dir' = AppendTo(dir, segment, Entry(pkey[p], pval[p]))
    /\ latest' = IF segment.open THEN [latest EXCEPT ![pkey[p]] = pval[p]] ELSE latest
    /\ gok' = [g \in Getters |->
                 IF segment.open /\ gfloor[g] /\ gkey[g] = pkey[p]
                 THEN gok[g] \cup {pval[p]} ELSE gok[g]]
    /\ UNCHANGED <<index, segment, segmentOffset, segmentIndex, isClosed, writeChClosed,
                   swap, pkey, pval, pres, queueVars, dispVars, workerVars, getVars,
                   mergeVars, closeVars, panicked, acked, everPut, count, gfloor,
                   pristine, seen, mghost>>
    /\ UNCHANGED <<recoverVars, lbVars>>

(* msg.errCh <- err, which Put returns                                     *)
WriteReply ==
    /\ ~panicked
    /\ wpc = "reply"
    /\ ppc' = [ppc EXCEPT ![wmsg.from] = "done"]
    /\ pres' = [pres EXCEPT ![wmsg.from] =
                   IF WriteFailed(wmsg) THEN Err("failed to put") ELSE Nil]
    /\ acked' = IF WriteFailed(wmsg) THEN acked ELSE [acked EXCEPT ![wmsg.key] = wmsg.val]
    /\ wpc' = "tail"
    /\ UNCHANGED <<dbVars, diskVars, wmsg, pkey, pval, queueVars, dispVars, workerVars,
                   getVars, mergeVars, closeVars, panicked, latest, everPut, count,
                   gfloor, gok, pristine, seen, mghost>>
    /\ UNCHANGED <<recoverVars, lbVars>>

(* after the reply: setIndex, the offset, the rollover, db.mu.Unlock()     *)
WriteTail ==
    /\ ~panicked
    /\ wpc = "tail"
    /\ wpc' = "recv"
    /\ mu' = "free"
    /\ IF WriteFailed(wmsg)
       THEN UNCHANGED <<index, segment, segmentOffset, segmentIndex, dir>>
       ELSE /\ index' = setIndex(index, wmsg.key, segmentIndex, segmentOffset)
            /\ IF SegmentFull(NextOffset(segmentOffset, EntrySize(wmsg.key, wmsg.val)))
               THEN /\ segmentIndex' = segmentIndex + 1
                    /\ segment' = Handle(segmentIndex + 1)
                    /\ dir' = OpenCreate(dir, segmentIndex + 1)
                    /\ segmentOffset' = loadSegmentOffset(dir, segmentIndex + 1)
               ELSE /\ segmentOffset' = NextOffset(segmentOffset, EntrySize(wmsg.key, wmsg.val))
                    /\ UNCHANGED <<segment, segmentIndex, dir>>
    /\ wmsg' = NoMsg
    /\ UNCHANGED <<isClosed, writeChClosed, swap, putVars, queueVars, dispVars,
                   workerVars, getVars, mergeVars, closeVars, panicked, ghostVars>>
    /\ UNCHANGED <<recoverVars, lbVars>>

(* msg := <-db.writeCh; db.mu.Lock(); segment.Write returns an error of    *)
(* the file system and writes nothing                                      *)
WriteRecvFails(p) ==
    /\ ~panicked
    /\ wpc = "recv"
    /\ ppc[p] = "send"
    /\ ~writeChClosed
    /\ LockFree(mu)
    /\ mu' = "writer"
    /\ ppc' = [ppc EXCEPT ![p] = "wait"]
    /\ wmsg' = [key |-> pkey[p], val |-> pval[p], from |-> p, err |-> TRUE]
    /\ wpc' = "reply"
    /\ UNCHANGED <<index, segment, segmentOffset, segmentIndex, isClosed, writeChClosed,
                   diskVars, pkey, pval, pres, queueVars, dispVars, workerVars, getVars,
                   mergeVars, closeVars, panicked, ghostVars>>
    /\ UNCHANGED <<recoverVars, lbVars>>

(* after the reply, when the rollover is due and os.OpenFile fails in      *)
(* loadSegment: the old segment is closed, db.segmentIndex is incremented, *)
(* db.segment and db.segmentOffset stay as they are; db.mu.Unlock()        *)
WriteTailOpenFails ==
    /\ ~panicked
    /\ wpc = "tail"
    /\ ~WriteFailed(wmsg)
    /\ SegmentFull(NextOffset(segmentOffset, EntrySize(wmsg.key, wmsg.val)))
    /\ wpc' = "recv"
    /\ mu' = "free"
    /\ index' = setIndex(index, wmsg.key, segmentIndex, segmentOffset)
    /\ segmentOffset' = NextOffset(segmentOffset, EntrySize(wmsg.key, wmsg.val))
    /\ segmentIndex' = segmentIndex + 1
    /\ segment' = AfterFailedOpen(segment)
    /\ wmsg' = NoMsg
    /\ UNCHANGED <<isClosed, writeChClosed, diskVars, putVars, queueVars, dispVars,
                   workerVars, getVars, mergeVars, closeVars, panicked, ghostVars>>
    /\ UNCHANGED <<recoverVars, lbVars>>

(* the range over db.writeCh ends once the channel is closed               *)
WriteExit ==
    /\ ~panicked
    /\ wpc = "recv"
    /\ writeChClosed
    /\ wpc' = "done"
    /\ UNCHANGED <<dbVars, diskVars, wmsg, putVars, queueVars, dispVars, workerVars,
                   getVars, mergeVars, closeVars, panicked, ghostVars>>
    /\ UNCHANGED <<recoverVars, lbVars>>

(* --------------------------------- Get -------------------------------- *)
(* Get(k), which is q.Do(k), up to its send:                               *)
(* if q.isClosed { return "", ErrWorkerQueueIsClosed }                     *)
StartGet(g, k) ==
    /\ ~panicked
    /\ gpc[g] = "idle"
    /\ IF DoClosedCheck(qIsClosed)
       THEN /\ gpc' = [gpc EXCEPT ![g] = "done"]
            /\ gres' = [gres EXCEPT ![g] = ErrWorkerQueueIsClosed]
       ELSE /\ gpc' = [gpc EXCEPT ![g] = "enqueue"]
            /\ gres' = gres
    /\ gkey' = [gkey EXCEPT ![g] = k]
    /\ gfloor' = [gfloor EXCEPT ![g] = acked[k] # 0]
    /\ gok' = [gok EXCEPT ![g] =
                 IF acked[k] = 0 THEN {}
                 ELSE {acked[k]} \cup
                      (IF wpc = "reply" /\ wmsg.key = k /\ ~wmsg.err THEN {wmsg.val} ELSE {})]
    /\ UNCHANGED <<dbVars, diskVars, writerVars, putVars, queueVars, dispVars,
                   workerVars, mergeVars, closeVars, panicked, latest, acked, everPut,
                   count, pristine, seen, mghost>>
    /\ UNCHANGED <<recoverVars, lbVars>>

(* the workerCount that newWorkerQueue was called with: the number of     *)
(* workers, and the capacity of q.msgQueue                                 *)
workerCount == Len(wkpc)

(* q.msgQueue <- getMsg{key, resCh}: the queue holds workerCount messages; *)
(* a send on the closed queue panics                                       *)
GetEnqueue(g) ==
    /\ ~panicked
    /\ gpc[g] = "enqueue"
    /\ msgQueueClosed \/ Len(msgQueue) < workerCount
    /\ IF msgQueueClosed
       THEN /\ panicked' = TRUE
            /\ UNCHANGED <<gpc, msgQueue>>
       ELSE /\ msgQueue' = Append(msgQueue, g)
            /\ gpc' = [gpc EXCEPT ![g] = "wait"]
            /\ panicked' = panicked
    /\ UNCHANGED <<dbVars, diskVars, writerVars, putVars, workerPool, msgQueueClosed,
                   qIsClosed, chClosed, qmu, dispVars, workerVars, gkey, gres,
                   mergeVars, closeVars, ghostVars>>
    /\ UNCHANGED <<recoverVars, lbVars>>

(* the caller has the result of Get                                        *)
GetReturn(g) ==
    /\ ~panicked
    /\ gpc[g] = "done"
    /\ gpc' = [gpc EXCEPT ![g] = "idle"]
    /\ gkey' = [gkey EXCEPT ![g] = 0]
    /\ gres' = [gres EXCEPT ![g] = NoResult]
    /\ gfloor' = [gfloor EXCEPT ![g] = FALSE]
    /\ gok' = [gok EXCEPT ![g] = {}]
    /\ UNCHANGED <<dbVars, diskVars, writerVars, putVars, queueVars, dispVars,
                   workerVars, mergeVars, closeVars, panicked, latest, acked, everPut,
                   count, pristine, seen, mghost>>
    /\ UNCHANGED <<recoverVars, lbVars>>

(* ----------------------------- dispatcher ----------------------------- *)
(* a receive that takes the message sent last                              *)
ReceiveLast(q) == [msg |-> q[Len(q)], rest |-> SubSeq(q, 1, Len(q) - 1)]

(* msg := <-q.msgQueue: the message sent first, which leaves the channel   *)
Receive(q) == [msg |-> Head(q), rest |-> Tail(q)]

(* a dispatcher that sleeps with q.mu held                                 *)
SleepHoldsLock == "dispatcher"

(* q.mu.Unlock() before time.Sleep in the loop on the empty free list      *)
SleepUnlock == "free"

(* a dispatcher that leaves the inbox it takes in the free list            *)
TakeWorkerKeeps(pool) == pool

(* q.workerPool[0] = nil; q.workerPool = q.workerPool[1:]                  *)
TakeWorker(pool) == Tail(pool)

(* msg := <-q.msgQueue                                                     *)
DispRecv ==
    /\ ~panicked
    /\ dpc = "recv"
    /\ msgQueue # <<>>
    /\ dmsg' = Receive(msgQueue).msg
    /\ msgQueue' = Receive(msgQueue).rest
    /\ dpc' = "lock"
    /\ UNCHANGED <<dbVars, diskVars, writerVars, putVars, workerPool, msgQueueClosed,
                   qIsClosed, chClosed, qmu, dworker, workerVars, getVars, mergeVars,
                   closeVars, panicked, ghostVars>>
    /\ UNCHANGED <<recoverVars, lbVars>>

(* the range over q.msgQueue ends once it is closed and drained            *)
DispExit ==
    /\ ~panicked
    /\ dpc = "recv"
    /\ msgQueue = <<>>
    /\ msgQueueClosed
    /\ dpc' = "done"
    /\ UNCHANGED <<dbVars, diskVars, writerVars, putVars, queueVars, dmsg, dworker,
                   workerVars, getVars, mergeVars, closeVars, panicked, ghostVars>>
    /\ UNCHANGED <<recoverVars, lbVars>>

(* q.mu.Lock(), at the head of the loop body and after each sleep          *)
DispLock ==
    /\ ~panicked
    /\ dpc = "lock"
    /\ qmu = "free"
    /\ qmu' = "dispatcher"
    /\ dpc' = "pool"
    /\ UNCHANGED <<dbVars, diskVars, writerVars, putVars, workerPool, msgQueue,
                   msgQueueClosed, qIsClosed, chClosed, dmsg, dworker, workerVars,
                   getVars, mergeVars, closeVars, panicked, ghostVars>>
    /\ UNCHANGED <<recoverVars, lbVars>>

(* for len(q.workerPool) == 0 { Unlock; Sleep; Lock }                      *)
DispSleep ==
    /\ ~panicked
    /\ dpc = "pool"
    /\ Len(workerPool) = 0
    /\ qmu' = SleepUnlock
    /\ dpc' = "lock"
    /\ UNCHANGED <<dbVars, diskVars, writerVars, putVars, workerPool, msgQueue,
                   msgQueueClosed, qIsClosed, chClosed, dmsg, dworker, workerVars,
                   getVars, mergeVars, closeVars, panicked, ghostVars>>
    /\ UNCHANGED <<recoverVars, lbVars>>

(* workerCh := q.workerPool[0]; q.workerPool = q.workerPool[1:]            *)
DispTake ==
    /\ ~panicked
    /\ dpc = "pool"
    /\ Len(workerPool) > 0
    /\ dworker' = Head(workerPool)
    /\ workerPool' = TakeWorker(workerPool)
    /\ dpc' = "send"
    /\ UNCHANGED <<dbVars, diskVars, writerVars, putVars, msgQueue, msgQueueClosed,
                   qIsClosed, chClosed, qmu, dmsg, workerVars, getVars, mergeVars,
                   closeVars, panicked, ghostVars>>
    /\ UNCHANGED <<recoverVars, lbVars>>

(* workerCh <- msg, received by the worker waiting on its inbox; a send on *)
(* a closed inbox panics                                                   *)
DispSend ==
    /\ ~panicked
    /\ dpc = "send"
    /\ chClosed[dworker] \/ wkpc[dworker] = "recv"
    /\ IF chClosed[dworker]
       THEN /\ panicked' = TRUE
            /\ UNCHANGED <<dpc, dmsg, dworker, wkpc, wkmsg>>
       ELSE /\ wkmsg' = [wkmsg EXCEPT ![dworker] = dmsg]
            /\ wkpc' = [wkpc EXCEPT ![dworker] = "check"]
            /\ dpc' = "unlock"
            /\ dmsg' = 0
            /\ dworker' = 0
            /\ panicked' = panicked
    /\ UNCHANGED <<dbVars, diskVars, writerVars, putVars, queueVars, wkentry, wkres,
                   getVars, mergeVars, closeVars, ghostVars>>
    /\ UNCHANGED <<recoverVars, lbVars>>

(* q.mu.Unlock() at the end of the loop body                               *)
DispUnlock ==
    /\ ~panicked
    /\ dpc = "unlock"
    /\ qmu' = "free"
    /\ dpc' = "recv"
    /\ UNCHANGED <<dbVars, diskVars, writerVars, putVars, workerPool, msgQueue,
                   msgQueueClosed, qIsClosed, chClosed, dmsg, dworker, workerVars,
                   getVars, mergeVars, closeVars, panicked, ghostVars>>
    /\ UNCHANGED <<recoverVars, lbVars>>

(* ------------------------------- workers ------------------------------ *)
(* db.get: if db.isClosed { return "", ErrDbClosed }                       *)
WorkerCheck(w) ==
    /\ ~panicked
    /\ wkpc[w] = "check"
    /\ IF DbClosedCheck(isClosed)
       THEN /\ wkres' = [wkres EXCEPT ![w] = ErrDbClosed]
            /\ wkpc' = [wkpc EXCEPT ![w] = "reply"]
       ELSE /\ wkres' = wkres
            /\ wkpc' = [wkpc EXCEPT ![w] = "lookup"]
    /\ UNCHANGED <<dbVars, diskVars, writerVars, putVars, queueVars, dispVars, wkmsg,
                   wkentry, getVars, mergeVars, closeVars, panicked, ghostVars>>
    /\ UNCHANGED <<recoverVars, lbVars>>

(* db.get: RLock; getIndex(key); RUnlock; if !found return ErrNotFound     *)
WorkerLookup(w) ==
    /\ ~panicked
    /\ wkpc[w] = "lookup"
    /\ RLockFree(mu)
    /\ IF getIndex(index, gkey[wkmsg[w]]).found
       THEN /\ wkentry' = [wkentry EXCEPT ![w] = getIndex(index, gkey[wkmsg[w]]).entry]
            /\ wkpc' = [wkpc EXCEPT ![w] = "read"]
            /\ wkres' = wkres
       ELSE /\ wkres' = [wkres EXCEPT ![w] = ErrNotFound]
            /\ wkpc' = [wkpc EXCEPT ![w] = "reply"]
            /\ wkentry' = wkentry
    /\ UNCHANGED <<dbVars, diskVars, writerVars, putVars, queueVars, dispVars, wkmsg,
                   getVars, mergeVars, closeVars, panicked, ghostVars>>
    /\ UNCHANGED <<recoverVars, lbVars>>

(* db.get: os.Open, Seek, readValue                                        *)
WorkerRead(w) ==
    /\ ~panicked
    /\ wkpc[w] = "read"
    /\ wkres' = [wkres EXCEPT ![w] = ReadEntry(dir, wkentry[w])]
    /\ wkpc' = [wkpc EXCEPT ![w] = "reply"]
    /\ UNCHANGED <<dbVars, diskVars, writerVars, putVars, queueVars, dispVars, wkmsg,
                   wkentry, getVars, mergeVars, closeVars, panicked, ghostVars>>
    /\ UNCHANGED <<recoverVars, lbVars>>

(* a get that drops the index entry of a key it could not read            *)
IndexAfterReadErrorDrops(idx, key) == [k \in (DOMAIN idx) \ {key} |-> idx[k]]

(* db.index when db.get returns the error of os.Open, Seek or readValue    *)
IndexAfterReadError(idx, key) == idx

(* db.get: os.Open, Seek or readValue returns an error of the file system  *)
WorkerReadFails(w) ==
    /\ ~panicked
    /\ wkpc[w] = "read"
    /\ wkres' = [wkres EXCEPT ![w] = ErrIO]
    /\ wkpc' = [wkpc EXCEPT ![w] = "reply"]
    /\ index' = IndexAfterReadError(index, gkey[wkmsg[w]])
    /\ UNCHANGED <<segment, segmentOffset, segmentIndex, isClosed, writeChClosed, mu,
                   diskVars, writerVars, putVars, queueVars, dispVars, wkmsg,
                   wkentry, getVars, mergeVars, closeVars, panicked, ghostVars>>
    /\ UNCHANGED <<recoverVars, lbVars>>

(* msg.resCh <- getResult{value, err}, which Do returns                    *)
WorkerReply(w) ==
    /\ ~panicked
    /\ wkpc[w] = "reply"
    /\ gpc[wkmsg[w]] = "wait"
    /\ gres' = [gres EXCEPT ![wkmsg[w]] = wkres[w]]
    /\ gpc' = [gpc EXCEPT ![wkmsg[w]] = "done"]
    /\ wkpc' = [wkpc EXCEPT ![w] = "register"]
    /\ wkmsg' = [wkmsg EXCEPT ![w] = 0]
    /\ wkentry' = [wkentry EXCEPT ![w] = NoEntry]
    /\ wkres' = [wkres EXCEPT ![w] = NoResult]
    /\ UNCHANGED <<dbVars, diskVars, writerVars, putVars, queueVars, dispVars, gkey,
                   mergeVars, closeVars, panicked, ghostVars>>
    /\ UNCHANGED <<recoverVars, lbVars>>

(* q.mu.Lock(); q.workerPool = append(q.workerPool, ch); q.mu.Unlock()     *)
WorkerRegister(w) ==
    /\ ~panicked
    /\ wkpc[w] = "register"
    /\ qmu = "free"
    /\ workerPool' = Append(workerPool, w)
    /\ wkpc' = [wkpc EXCEPT ![w] = "recv"]
    /\ UNCHANGED <<dbVars, diskVars, writerVars, putVars, msgQueue, msgQueueClosed,
                   qIsClosed, chClosed, qmu, dispVars, wkmsg, wkentry, wkres, getVars,
                   mergeVars, closeVars, panicked, ghostVars>>
    /\ UNCHANGED <<recoverVars, lbVars>>

(* the range over the inbox ends once it is closed                         *)
WorkerExit(w) ==
    /\ ~panicked
    /\ wkpc[w] = "recv"
    /\ chClosed[w]
    /\ wkpc' = [wkpc EXCEPT ![w] = "done"]
    /\ UNCHANGED <<dbVars, diskVars, writerVars, putVars, queueVars, dispVars, wkmsg,
                   wkentry, wkres, getVars, mergeVars, closeVars, panicked, ghostVars>>
    /\ UNCHANGED <<recoverVars, lbVars>>

(* -------------------------------- Merge ------------------------------- *)
(* Merge() up to Copy: if db.isClosed { return ErrDbClosed }               *)
StartMerge ==
    /\ ~panicked
    /\ mpc = "idle"
    /\ IF DbClosedCheck(isClosed)
       THEN /\ mpc' = "done"
            /\ mres' = ErrDbClosed
            /\ UNCHANGED <<count, seen, mghost>>
       ELSE /\ count < MaxCalls
            /\ mpc' = "copy"
            /\ mres' = mres
            /\ count' = count + 1
            /\ seen' = [k \in Keys |-> Unknown]
            /\ mghost' = [quiet |-> wpc = "recv" /\ \A p \in Putters : ~InCall(ppc[p]),
                          keys |-> DOMAIN index, acked |-> acked]
    /\ pristine' = FALSE
    /\ UNCHANGED <<dbVars, diskVars, writerVars, putVars, queueVars, dispVars,
                   workerVars, getVars, mst, closeVars, panicked, latest, acked, everPut,
                   gfloor, gok>>
    /\ UNCHANGED <<recoverVars, lbVars>>

(* Copy: os.OpenFile(filename, O_APPEND|O_WRONLY|O_CREATE), then the range *)
(* over db.index begins                                                    *)
MergeCopyOpen ==
    /\ ~panicked
    /\ mpc = "copy"
    /\ swap' = [exists |-> TRUE, recs |-> swap.recs]
    /\ mst' = [mst EXCEPT !.snap = DOMAIN index]
    /\ mpc' = "iter"
    /\ UNCHANGED <<dbVars, dir, writerVars, putVars, queueVars, dispVars, workerVars,
                   getVars, mres, closeVars, panicked, ghostVars>>
    /\ UNCHANGED <<recoverVars, lbVars>>

(* a Copy that leaves the swap file behind when it fails                   *)
RemoveSwapKeeps(sw) == sw

(* os.Remove(filename) in Copy                                             *)
RemoveSwap(sw) == NoSwap

(* the range yields a key it has not yielded yet; db.get(key) starts with  *)
(* its test of db.isClosed, on which Copy removes the swap file            *)
MergeIter(k) ==
    /\ ~panicked
    /\ mpc = "iter"
    /\ k \in (DOMAIN index) \ mst.done
    /\ IF DbClosedCheck(isClosed)
       THEN /\ swap' = RemoveSwap(swap)
            /\ mres' = ErrDbClosed
            /\ mpc' = "done"
            /\ mst' = mst
       ELSE /\ mst' = [mst EXCEPT !.key = k]
            /\ mpc' = "get"
            /\ UNCHANGED <<swap, mres>>
    /\ UNCHANGED <<dbVars, dir, writerVars, putVars, queueVars, dispVars, workerVars,
                   getVars, closeVars, panicked, ghostVars>>
    /\ UNCHANGED <<recoverVars, lbVars>>

(* the rest of db.get(key) under RLock, then swap.Write and index[key];    *)
(* on a read error Copy removes the swap file and Merge returns the error  *)
MergeGet ==
    /\ ~panicked
    /\ mpc = "get"
    /\ RLockFree(mu)
    /\ IF GetValue(index, dir, mst.key).err # "nil"
       THEN /\ swap' = RemoveSwap(swap)
            /\ mres' = GetValue(index, dir, mst.key)
            /\ mpc' = "done"
            /\ mst' = mst
       ELSE /\ swap' = [swap EXCEPT !.recs =
                           Append(@, Entry(mst.key, GetValue(index, dir, mst.key).val))]
            /\ mst' = [mst EXCEPT
                         !.index = setIndex(@, mst.key, 0, mst.offset),
                         !.offset = @ + EntrySize(mst.key, GetValue(index, dir, mst.key).val),
                         !.done = @ \cup {mst.key}]
            /\ mpc' = "iter"
            /\ mres' = mres
    /\ UNCHANGED <<dbVars, dir, writerVars, putVars, queueVars, dispVars, workerVars,
                   getVars, closeVars, panicked, ghostVars>>
    /\ UNCHANGED <<recoverVars, lbVars>>

(* db.get(key) or swap.Write(e.Encode()) returns an error of the file      *)
(* system: os.Remove(filename), and Merge returns the error                *)
MergeCopyFails ==
    /\ ~panicked
    /\ mpc = "get"
    /\ RLockFree(mu)
    /\ swap' = RemoveSwap(swap)
    /\ mres' = ErrIO
    /\ mpc' = "done"
    /\ mst' = mst
    /\ UNCHANGED <<dbVars, dir, writerVars, putVars, queueVars, dispVars, workerVars,
                   getVars, closeVars, panicked, ghostVars>>
    /\ UNCHANGED <<recoverVars, lbVars>>

(* the range is over: every key that was in the map when it began has     *)
(* been yielded (a key inserted meanwhile may or may not have been);       *)
(* Copy returns and Merge reads db.segmentIndex                            *)
MergeIterEnd ==
    /\ ~panicked
    /\ mpc = "iter"
    /\ (mst.snap \cap DOMAIN index) \subseteq mst.done
    /\ mst' = [mst EXCEPT !.segmentIndex = segmentIndex]
    /\ mpc' = "rename"
    /\ UNCHANGED <<dbVars, diskVars, writerVars, putVars, queueVars, dispVars,
                   workerVars, getVars, mres, closeVars, panicked, ghostVars>>
    /\ UNCHANGED <<recoverVars, lbVars>>

(* os.Rename(swapFilename, segmentPath) onto segment 0                     *)
MergeRename ==
    /\ ~panicked
    /\ mpc = "rename"
    /\ dir' = RenameSwap(dir, swap.recs)
    /\ swap' = NoSwap
    /\ segment' = Unlink(segment, {0})
    /\ mpc' = "open"
    /\ UNCHANGED <<index, segmentOffset, segmentIndex, isClosed, writeChClosed, mu,
                   writerVars, putVars, queueVars, dispVars, workerVars, getVars, mst,
                   mres, closeVars, panicked, ghostVars>>
    /\ UNCHANGED <<recoverVars, lbVars>>

(* segment, err := os.OpenFile(segmentPath, O_APPEND|O_WRONLY|O_CREATE)    *)
MergeOpen ==
    /\ ~panicked
    /\ mpc = "open"
    /\ dir' = OpenCreate(dir, 0)
    /\ mst' = [mst EXCEPT !.segment = Handle(0)]
    /\ mpc' = "install"
    /\ UNCHANGED <<dbVars, swap, writerVars, putVars, queueVars, dispVars, workerVars,
                   getVars, mres, closeVars, panicked, ghostVars>>
    /\ UNCHANGED <<recoverVars, lbVars>>

(* db.mu.Lock(); the old segment is closed and the new state installed;    *)
(* db.mu.Unlock()                                                          *)
MergeInstall ==
    /\ ~panicked
    /\ mpc = "install"
    /\ LockFree(mu)
    /\ segmentIndex' = 0
    /\ index' = mst.index
    /\ segmentOffset' = mst.offset
    /\ segment' = mst.segment
    /\ mpc' = "remove"
    /\ UNCHANGED <<isClosed, writeChClosed, mu, diskVars, writerVars, putVars,
                   queueVars, dispVars, workerVars, getVars, mst, mres, closeVars,
                   panicked, ghostVars>>
    /\ UNCHANGED <<recoverVars, lbVars>>

(* for i := 1; i <= segmentIndex; i++ { os.Remove(...) }; return nil       *)
MergeRemove ==
    /\ ~panicked
    /\ mpc = "remove"
    /\ dir' = RemoveFiles(dir, 1..mst.segmentIndex)
    /\ segment' = Unlink(segment, 1..mst.segmentIndex)
    /\ mres' = Nil
    /\ mpc' = "done"
    /\ UNCHANGED <<index, segmentOffset, segmentIndex, isClosed, writeChClosed, mu,
                   swap, writerVars, putVars, queueVars, dispVars, workerVars, getVars,
                   mst, closeVars, panicked, ghostVars>>
    /\ UNCHANGED <<recoverVars, lbVars>>

(* the caller has the result of Merge                                      *)
MergeReturn ==
    /\ ~panicked
    /\ mpc = "done"
    /\ mpc' = "idle"
    /\ mst' = MergeLocals
    /\ mres' = NoResult
    /\ mghost' = NoMergeGhost
    /\ UNCHANGED <<dbVars, diskVars, writerVars, putVars, queueVars, dispVars,
                   workerVars, getVars, closeVars, panicked, latest, acked, everPut,
                   count, gfloor, gok, pristine, seen>>
    /\ UNCHANGED <<recoverVars, lbVars>>

(* -------------------------------- Close ------------------------------- *)
(* Close() up to close(db.writeCh): if db.isClosed { return nil }          *)
StartClose ==
    /\ ~panicked
    /\ cpc = "idle"
    /\ IF CloseClosedCheck(isClosed)
       THEN cpc' = "closed" /\ cres' = Nil
       ELSE cpc' = "writeCh" /\ cres' = cres
    /\ pristine' = FALSE
    /\ UNCHANGED <<dbVars, diskVars, writerVars, putVars, queueVars, dispVars,
                   workerVars, getVars, mergeVars, panicked, latest, acked, everPut,
                   count, gfloor, gok, seen, mghost>>
    /\ UNCHANGED <<recoverVars, lbVars>>

(* close(db.writeCh): closing a closed channel panics                      *)
CloseWriteCh ==
    /\ ~panicked
    /\ cpc = "writeCh"
    /\ panicked' = writeChClosed
    /\ writeChClosed' = TRUE
    /\ cpc' = "wq"
    /\ UNCHANGED <<index, segment, segmentOffset, segmentIndex, isClosed, mu, diskVars,
                   writerVars, putVars, queueVars, dispVars, workerVars, getVars,
                   mergeVars, cres, ghostVars>>
    /\ UNCHANGED <<recoverVars, lbVars>>

(* q.Close: if q.isClosed { return }; q.isClosed = true                    *)
CloseQueueFlag ==
    /\ ~panicked
    /\ cpc = "wq"
    /\ cpc' = IF qIsClosed THEN "flag" ELSE "wqLock"
    /\ qIsClosed' = TRUE
    /\ UNCHANGED <<dbVars, diskVars, writerVars, putVars, workerPool, msgQueue,
                   msgQueueClosed, chClosed, qmu, dispVars, workerVars, getVars,
                   mergeVars, cres, panicked, ghostVars>>
    /\ UNCHANGED <<recoverVars, lbVars>>

(* q.Close under q.mu: close(q.msgQueue) and close(ch) for every inbox in  *)
(* the pool; closing a closed channel panics                               *)
CloseQueueChannels ==
    /\ ~panicked
    /\ cpc = "wqLock"
    /\ qmu = "free"
    /\ panicked' = (msgQueueClosed \/ \E i \in 1..Len(workerPool) : chClosed[workerPool[i]])
    /\ msgQueueClosed' = TRUE
    /\ chClosed' = [w \in Workers |->
                       chClosed[w] \/ \E i \in 1..Len(workerPool) : workerPool[i] = w]
    /\ cpc' = "flag"
    /\ UNCHANGED <<dbVars, diskVars, writerVars, putVars, workerPool, msgQueue,
                   qIsClosed, qmu, dispVars, workerVars, getVars, mergeVars, cres,
                   ghostVars>>
    /\ UNCHANGED <<recoverVars, lbVars>>

(* db.isClosed = true                                                      *)
CloseFlag ==
    /\ ~panicked
    /\ cpc = "flag"
    /\ isClosed' = TRUE
    /\ cpc' = "segment"
    /\ UNCHANGED <<index, segment, segmentOffset, segmentIndex, writeChClosed, mu,
                   diskVars, writerVars, putVars, queueVars, dispVars, workerVars,
                   getVars, mergeVars, cres, panicked, ghostVars>>
    /\ UNCHANGED <<recoverVars, lbVars>>

(* return db.segment.Close()                                               *)
CloseSegment ==
    /\ ~panicked
    /\ cpc = "segment"
    /\ segment' = ClosedHandle
    /\ cres' = IF segment.open THEN Nil ELSE Err("file already closed")
    /\ cpc' = "done"
    /\ UNCHANGED <<index, segmentOffset, segmentIndex, isClosed, writeChClosed, mu,
                   diskVars, writerVars, putVars, queueVars, dispVars, workerVars,
                   getVars, mergeVars, panicked, ghostVars>>
    /\ UNCHANGED <<recoverVars, lbVars>>

(* the caller has the result of Close                                      *)
CloseReturn ==
    /\ ~panicked
    /\ cpc \in {"done", "closed"}
    /\ cpc' = "idle"
    /\ cres' = NoResult
    /\ UNCHANGED <<dbVars, diskVars, writerVars, putVars, queueVars, dispVars,
                   workerVars, getVars, mergeVars, panicked, ghostVars>>
    /\ UNCHANGED <<recoverVars, lbVars>>

(* -------------------------------- NewDb ------------------------------- *)
(* the goroutines of the closed Db have come to rest                       *)
AtRest ==
    /\ wpc \in {"recv", "done"}
    /\ dpc \in {"recv", "done"}
    /\ \A w \in Workers : wkpc[w] \in {"recv", "done"}

(* NewDb on the directory the closed Db has left: recover, loadSegment,    *)
(* a new worker queue and a new writer                                     *)
Reopen ==
    /\ ~panicked
    /\ CloseReturned
    /\ ClientIdle
    /\ AtRest
    /\ RecoverOk(dir)
    /\ index' = NewDb(dir).index
    /\ segmentIndex' = NewDb(dir).segmentIndex
    /\ segmentOffset' = NewDb(dir).segmentOffset
    /\ segment' = NewDb(dir).segment
    /\ dir' = NewDb(dir).dir
    /\ isClosed' = FALSE /\ writeChClosed' = FALSE /\ mu' = "free"
    /\ wpc' = "recv" /\ wmsg' = NoMsg
    /\ ppc' = [p \in Putters |-> "idle"] /\ pkey' = [p \in Putters |-> 0]
    /\ pval' = [p \in Putters |-> 0] /\ pres' = [p \in Putters |-> NoResult]
    /\ workerPool' = NewWorkerPool /\ msgQueue' = <<>>
    /\ msgQueueClosed' = FALSE /\ qIsClosed' = FALSE
    /\ chClosed' = [w \in Workers |-> FALSE] /\ qmu' = "free"
    /\ dpc' = "recv" /\ dmsg' = 0 /\ dworker' = 0
    /\ wkpc' = [w \in Workers |-> "recv"] /\ wkmsg' = [w \in Workers |-> 0]
    /\ wkentry' = [w \in Workers |-> NoEntry] /\ wkres' = [w \in Workers |-> NoResult]
    /\ gpc' = [g \in Getters |-> "idle"] /\ gkey' = [g \in Getters |-> 0]
    /\ gres' = [g \in Getters |-> NoResult]
    /\ mpc' = "idle" /\ mst' = MergeLocals /\ mres' = NoResult
    /\ cpc' = "idle" /\ cres' = NoResult
    /\ panicked' = FALSE
    /\ seen' = [k \in Keys |-> IF k \in everPut THEN GetValue(index, dir, k) ELSE Unknown]
    /\ swap' = swap
    /\ gfloor' = [g \in Getters |-> FALSE]
    /\ gok' = [g \in Getters |-> {}]
    /\ mghost' = NoMergeGhost
    /\ UNCHANGED <<latest, acked, everPut, count, pristine>>
    /\ UNCHANGED <<recoverVars, lbVars>>

(* ------------------------------ recover ------------------------------- *)
(* const recoverbufferSize                                                 *)
recoverbufferSize == 8192

Min(a, b) == IF a < b THEN a ELSE b

(* the bytes a crash left after the last whole record of a file: have of   *)
(* the want bytes its header declares                                      *)
NoTorn == [have |-> 0, want |-> 0]

TornOf(t, seg) == IF seg \in DOMAIN t THEN t[seg] ELSE NoTorn

(* the bytes of the file from its record pos to its end                    *)
Remaining(f, t, pos) == FileLen(SubSeq(f, pos, Len(f))) + t.have

(* a continue that goes back to the Peek                                   *)
AfterEmptyPeekSpins == "peek"

(* continue, in a loop whose condition err == nil no longer holds: the     *)
(* inner loop is over                                                      *)
AfterEmptyPeek == "next"

(* in.Peek(recoverbufferSize) with rem bytes left: the bytes it returns,   *)
(* and io.EOF when they are fewer than asked for                           *)
Peek(rem) == [n |-> Min(rem, recoverbufferSize), eof |-> rem < recoverbufferSize]

(* binary.LittleEndian.Uint32(header) of the record at pos                 *)
DeclaredSize(f, t, pos) == IF pos <= Len(f) THEN RecSize(f[pos]) ELSE t.want

(* segmentIndex, err := db.recoverSegmentIndex()                           *)
RecoverScan ==
    /\ ~panicked
    /\ rpc = "scan"
    /\ rst' = [rst EXCEPT !.last = recoverSegmentIndex(dir), !.i = 0]
    /\ rpc' = IF recoverSegmentIndex(dir) < 0 THEN "load" ELSE "open"
    /\ rres' = rres
    /\ torn' = torn
    /\ UNCHANGED <<dbVars, diskVars, writerVars, putVars, queueVars, dispVars,
                   workerVars, getVars, mergeVars, closeVars, panicked, ghostVars,
                   lbVars>>

(* the body of the outer loop up to the inner one: db.segmentIndex = i,    *)
(* db.segmentOffset = 0, os.OpenFile(segmentPath, O_RDONLY)                *)
RecoverOpen ==
    /\ ~panicked
    /\ rpc = "open"
    /\ segmentIndex' = rst.i
    /\ segmentOffset' = 0
    /\ IF rst.i \in DOMAIN dir
       THEN /\ rpc' = "peek"
            /\ rres' = rres
       ELSE /\ rpc' = "done"
            /\ rres' = ErrNoFile
    /\ rst' = [rst EXCEPT !.pos = 1]
    /\ torn' = torn
    /\ UNCHANGED <<index, segment, isClosed, writeChClosed, mu, diskVars, writerVars,
                   putVars, queueVars, dispVars, workerVars, getVars, mergeVars,
                   closeVars, panicked, ghostVars,
                   lbVars>>

(* header, err = in.Peek(recoverbufferSize): on io.EOF with no bytes the   *)
(* continue ends the inner loop, whose condition is err == nil; Uint32     *)
(* panics on a header of fewer than 4 bytes                                *)
RecoverPeek ==
    /\ ~panicked
    /\ rpc = "peek"
    /\ LET pk == Peek(Remaining(dir[rst.i], TornOf(torn, rst.i), rst.pos))
       IN  /\ rpc' = IF pk.eof /\ pk.n = 0 THEN AfterEmptyPeek ELSE "read"
           /\ panicked' = (~(pk.eof /\ pk.n = 0) /\ pk.n < 4)
           /\ rst' = [rst EXCEPT !.avail = pk.n]
    /\ rres' = rres
    /\ torn' = torn
    /\ UNCHANGED <<dbVars, diskVars, writerVars, putVars, queueVars, dispVars,
                   workerVars, getVars, mergeVars, closeVars, ghostVars, lbVars>>

(* n, err = in.Read(data), which copies what the buffer holds; n != size   *)
(* returns "corrupted file"; else e.Decode, setIndex, the offset advances  *)
RecoverRead ==
    /\ ~panicked
    /\ rpc = "read"
    /\ LET size == DeclaredSize(dir[rst.i], TornOf(torn, rst.i), rst.pos)
           n == Min(size, rst.avail)
       IN  IF n # size
           THEN /\ rpc' = "done"
                /\ rres' = ErrCorruptedFile
                /\ UNCHANGED <<index, segmentOffset, rst>>
           ELSE /\ rpc' = "peek"
                /\ rres' = rres
                /\ index' = setIndex(index, dir[rst.i][rst.pos].key, segmentIndex,
                                     segmentOffset)
                /\ segmentOffset' = segmentOffset + n
                /\ rst' = [rst EXCEPT !.pos = @ + 1]
    /\ torn' = torn
    /\ UNCHANGED <<segment, segmentIndex, isClosed, writeChClosed, mu, diskVars,
                   writerVars, putVars, queueVars, dispVars, workerVars, getVars,
                   mergeVars, closeVars, panicked, ghostVars,
                   lbVars>>

(* the inner loop is over: i++ and the test i <= segmentIndex              *)
RecoverNext ==
    /\ ~panicked
    /\ rpc = "next"
    /\ rst' = [rst EXCEPT !.i = @ + 1]
    /\ rpc' = IF rst.i + 1 <= rst.last THEN "open" ELSE "load"
    /\ rres' = rres
    /\ torn' = torn
    /\ UNCHANGED <<dbVars, diskVars, writerVars, putVars, queueVars, dispVars,
                   workerVars, getVars, mergeVars, closeVars, panicked, ghostVars,
                   lbVars>>

(* return db.loadSegment()                                                 *)
RecoverLoad ==
    /\ ~panicked
    /\ rpc = "load"
    /\ dir' = OpenCreate(dir, segmentIndex)
    /\ segment' = Handle(segmentIndex)
    /\ segmentOffset' = loadSegmentOffset(dir, segmentIndex)
    /\ rpc' = "done"
    /\ rres' = Nil
    /\ UNCHANGED <<index, segmentIndex, isClosed, writeChClosed, mu, swap, writerVars,
                   putVars, queueVars, dispVars, workerVars, getVars, mergeVars,
                   closeVars, panicked, ghostVars, torn, rst, lbVars>>

(* the directories NewDb is called on: segment files of whole records,     *)
(* each with or without a torn tail whose header is cut or complete        *)
RecoverVals == {1, LargeVal}

RecoverFiles ==
    UNION {[1..n -> {Entry(k, v) : k \in Keys, v \in RecoverVals}] : n \in 0..MaxRecords}

RecoverDirs == UNION {[segs -> RecoverFiles] : segs \in SUBSET {0, 1}}

TornTails == {NoTorn, [have |-> 2, want |-> 14], [have |-> 6, want |-> 14]}

(* NewDb has made the Db and the worker queue and is about to call recover *)
InitRecover ==
    /\ dir \in RecoverDirs
    /\ torn \in [DOMAIN dir -> TornTails]
    /\ swap = NoSwap
    /\ index = <<>>
    /\ segmentIndex = 0
    /\ segmentOffset = 0
    /\ segment = ClosedHandle
    /\ isClosed = FALSE /\ writeChClosed = FALSE /\ mu = "free"
    /\ wpc = "recv" /\ wmsg = NoMsg
    /\ ppc = [p \in Putters |-> "idle"] /\ pkey = [p \in Putters |-> 0]
    /\ pval = [p \in Putters |-> 0] /\ pres = [p \in Putters |-> NoResult]
    /\ workerPool = NewWorkerPool /\ msgQueue = <<>>
    /\ msgQueueClosed = FALSE /\ qIsClosed = FALSE
    /\ chClosed = [w \in Workers |-> FALSE] /\ qmu = "free"
    /\ dpc = "recv" /\ dmsg = 0 /\ dworker = 0
    /\ wkpc = [w \in Workers |-> "recv"] /\ wkmsg = [w \in Workers |-> 0]
    /\ wkentry = [w \in Workers |-> NoEntry] /\ wkres = [w \in Workers |-> NoResult]
    /\ gpc = [g \in Getters |-> "idle"] /\ gkey = [g \in Getters |-> 0]
    /\ gres = [g \in Getters |-> NoResult]
    /\ mpc = "idle" /\ mst = MergeLocals /\ mres = NoResult
    /\ cpc = "idle" /\ cres = NoResult
    /\ panicked = FALSE
    /\ latest = [k \in Keys |-> 0] /\ acked = [k \in Keys |-> 0]
    /\ everPut = {} /\ count = 0
    /\ gfloor = [g \in Getters |-> FALSE] /\ gok = [g \in Getters |-> {}]
    /\ pristine = TRUE
    /\ seen = [k \in Keys |-> Unknown]
    /\ mghost = NoMergeGhost
    /\ rpc = "scan" /\ rst = RecoverLocals /\ rres = NoResult
    /\ InitBalancer

(* --------------------------- specifications --------------------------- *)
(* two concurrent callers of Put and one of Get on a Db nobody merges or   *)
(* closes                                                                  *)
Next ==
    \/ \E p \in Putters, k \in Keys, v \in Vals : count < MaxPuts /\ StartPut(p, k, v)
    \/ \E p \in Putters : PutReturn(p)
    \/ \E p \in Putters : WriteRecv(p)
    \/ WriteReply
    \/ WriteTail
    \/ GetReturn(1)
    \/ \E k \in Keys : StartGet(1, k)
    \/ GetEnqueue(1)
    \/ DispRecv
    \/ DispLock
    \/ DispSleep
    \/ DispTake
    \/ DispSend
    \/ DispUnlock
    \/ \E w \in Workers : WorkerCheck(w)
    \/ \E w \in Workers : WorkerLookup(w)
    \/ \E w \in Workers : WorkerRead(w)
    \/ \E w \in Workers : WorkerReply(w)
    \/ \E w \in Workers : WorkerRegister(w)

Spec == Init /\ [][Next]_vars

(* one caller of Put and more concurrent callers of Get than the pool has  *)
(* workers, on a Db nobody merges or closes                                *)
NextReaders ==
    \/ \E k \in Keys, v \in Vals : count < MaxPuts /\ StartPut(1, k, v)
    \/ PutReturn(1)
    \/ WriteRecv(1)
    \/ WriteReply
    \/ WriteTail
    \/ \E g \in Getters : GetReturn(g)
    \/ \E g \in Getters, k \in Keys : StartGet(g, k)
    \/ \E g \in Getters : GetEnqueue(g)
    \/ DispRecv
    \/ DispLock
    \/ DispSleep
    \/ DispTake
    \/ DispSend
    \/ DispUnlock
    \/ \E w \in Workers : WorkerCheck(w)
    \/ \E w \in Workers : WorkerLookup(w)
    \/ \E w \in Workers : WorkerRead(w)
    \/ \E w \in Workers : WorkerReply(w)
    \/ \E w \in Workers : WorkerRegister(w)

SpecReaders == Init /\ [][NextReaders]_vars

(* two concurrent callers of Get, more than there are workers and places   *)
(* in q.msgQueue, on an open Db that receives one Put                      *)
NextGets ==
    \/ \E k \in Keys, v \in Vals : everPut = {} /\ StartPut(1, k, v)
    \/ PutReturn(1)
    \/ WriteRecv(1)
    \/ WriteReply
    \/ WriteTail
    \/ \E g \in Getters : GetReturn(g)
    \/ \E g \in Getters, k \in Keys : StartGet(g, k)
    \/ \E g \in Getters : GetEnqueue(g)
    \/ DispRecv
    \/ DispLock
    \/ DispSleep
    \/ DispTake
    \/ DispSend
    \/ DispUnlock
    \/ \E w \in Workers : WorkerCheck(w)
    \/ \E w \in Workers : WorkerLookup(w)
    \/ \E w \in Workers : WorkerRead(w)
    \/ \E w \in Workers : WorkerReadFails(w)
    \/ \E w \in Workers : WorkerReply(w)
    \/ \E w \in Workers : WorkerRegister(w)

SpecGets == Init /\ [][NextGets]_vars

(* the same under fair scheduling: every goroutine that can take a step    *)
(* takes one; a goroutine that waits for q.mu or for room in q.msgQueue    *)
(* gets its turn among the others that do                                  *)
FairGets ==
    /\ SpecGets
    /\ WF_vars(WriteReply) /\ WF_vars(WriteTail)
    /\ WF_vars(DispRecv) /\ WF_vars(DispLock) /\ WF_vars(DispSleep)
    /\ WF_vars(DispTake) /\ WF_vars(DispSend) /\ WF_vars(DispUnlock)
    /\ \A w \in Workers :
          /\ WF_vars(WorkerCheck(w)) /\ WF_vars(WorkerLookup(w))
          /\ WF_vars(WorkerRead(w) \/ WorkerReadFails(w)) /\ WF_vars(WorkerReply(w))
          /\ SF_vars(WorkerRegister(w))
    /\ \A g \in Getters : SF_vars(GetEnqueue(g))

(* one client that makes one call at a time: Put, Get, Merge, Close and    *)
(* NewDb on the directory of the closed Db; the goroutines of the Db run   *)
(* on between and during its calls                                         *)
NextSeq ==
    \/ \E k \in Keys, v \in Vals : ClientIdle /\ StartPut(1, k, v)
    \/ PutReturn(1)
    \/ WriteRecv(1)
    \/ WriteReply
    \/ WriteTail
    \/ WriteExit
    \/ \E k \in Keys : ClientIdle /\ StartGet(1, k)
    \/ GetEnqueue(1)
    \/ GetReturn(1)
    \/ DispRecv
    \/ DispExit
    \/ DispLock
    \/ DispSleep
    \/ DispTake
    \/ DispSend
    \/ DispUnlock
    \/ \E w \in Workers : WorkerCheck(w)
    \/ \E w \in Workers : WorkerLookup(w)
    \/ \E w \in Workers : WorkerRead(w)
    \/ \E w \in Workers : WorkerReply(w)
    \/ \E w \in Workers : WorkerRegister(w)
    \/ \E w \in Workers : WorkerExit(w)
    \/ ClientIdle /\ StartMerge
    \/ MergeCopyOpen
    \/ \E k \in Keys : MergeIter(k)
    \/ MergeGet
    \/ MergeIterEnd
    \/ MergeRename
    \/ MergeOpen
    \/ MergeInstall
    \/ MergeRemove
    \/ MergeReturn
    \/ ClientIdle /\ StartClose
    \/ CloseWriteCh
    \/ CloseQueueFlag
    \/ CloseQueueChannels
    \/ CloseFlag
    \/ CloseSegment
    \/ CloseReturn
    \/ Reopen

SpecSeq == Init /\ [][NextSeq]_vars

(* the same client with Put, Close and NewDb only                          *)
NextReopen ==
    \/ \E k \in Keys, v \in Vals : ClientIdle /\ StartPut(1, k, v)
    \/ PutReturn(1)
    \/ WriteRecv(1)
    \/ WriteReply
    \/ WriteTail
    \/ WriteExit
    \/ DispExit
    \/ \E w \in Workers : WorkerExit(w)
    \/ ClientIdle /\ StartClose
    \/ CloseWriteCh
    \/ CloseQueueFlag
    \/ CloseQueueChannels
    \/ CloseFlag
    \/ CloseSegment
    \/ CloseReturn
    \/ Reopen

SpecReopen == Init /\ [][NextReopen]_vars

(* the same client with Put and Merge only                                 *)
NextMerge ==
    \/ \E k \in Keys, v \in Vals : ClientIdle /\ StartPut(1, k, v)
    \/ PutReturn(1)
    \/ WriteRecv(1)
    \/ WriteReply
    \/ WriteTail
    \/ ClientIdle /\ StartMerge
    \/ MergeCopyOpen
    \/ \E k \in Keys : MergeIter(k)
    \/ MergeGet
    \/ MergeIterEnd
    \/ MergeRename
    \/ MergeOpen
    \/ MergeInstall
    \/ MergeRemove
    \/ MergeReturn

SpecMerge == Init /\ [][NextMerge]_vars

(* the same client on a Db whose file system may fail a read or a write of *)
(* Copy                                                                    *)
NextMergeFaults ==
    \/ \E k \in Keys, v \in Vals : ClientIdle /\ StartPut(1, k, v)
    \/ PutReturn(1)
    \/ WriteRecv(1)
    \/ WriteReply
    \/ WriteTail
    \/ ClientIdle /\ StartMerge
    \/ MergeCopyOpen
    \/ \E k \in Keys : MergeIter(k)
    \/ MergeGet
    \/ MergeCopyFails
    \/ MergeIterEnd
    \/ MergeRename
    \/ MergeOpen
    \/ MergeInstall
    \/ MergeRemove
    \/ MergeReturn

SpecMergeFaults == Init /\ [][NextMergeFaults]_vars

(* a caller of Put, a caller of Get and a caller of Close that run          *)
(* concurrently on one Db                                                  *)
NextRace ==
    \/ \E k \in Keys, v \in Vals : count < MaxPuts /\ StartPut(1, k, v)
    \/ PutSendClosed(1)
    \/ PutReturn(1)
    \/ WriteRecv(1)
    \/ WriteReply
    \/ WriteTail
    \/ WriteExit
    \/ \E k \in Keys : StartGet(1, k)
    \/ GetEnqueue(1)
    \/ GetReturn(1)
    \/ DispRecv
    \/ DispExit
    \/ DispLock
    \/ DispSleep
    \/ DispTake
    \/ DispSend
    \/ DispUnlock
    \/ \E w \in Workers : WorkerCheck(w)
    \/ \E w \in Workers : WorkerLookup(w)
    \/ \E w \in Workers : WorkerRead(w)
    \/ \E w \in Workers : WorkerReply(w)
    \/ \E w \in Workers : WorkerRegister(w)
    \/ \E w \in Workers : WorkerExit(w)
    \/ StartClose
    \/ CloseWriteCh
    \/ CloseQueueFlag
    \/ CloseQueueChannels
    \/ CloseFlag
    \/ CloseSegment
    \/ CloseReturn

SpecRace == Init /\ [][NextRace]_vars

(* a caller of Put and a caller of Merge that run concurrently             *)
NextMergePut ==
    \/ \E k \in Keys, v \in Vals : StartPut(1, k, v)
    \/ PutReturn(1)
    \/ WriteRecv(1)
    \/ WriteReply
    \/ WriteTail
    \/ StartMerge
    \/ MergeCopyOpen
    \/ \E k \in Keys : MergeIter(k)
    \/ MergeGet
    \/ MergeIterEnd
    \/ MergeRename
    \/ MergeOpen
    \/ MergeInstall
    \/ MergeRemove
    \/ MergeReturn

SpecMergePut == Init /\ [][NextMergePut]_vars

(* the sequential client calling Put on a Db whose file system may fail a  *)
(* write or the opening of a new segment                                   *)
NextFaults ==
    \/ \E k \in Keys, v \in Vals : ClientIdle /\ StartPut(1, k, v)
    \/ PutReturn(1)
    \/ WriteRecv(1)
    \/ WriteRecvFails(1)
    \/ WriteReply
    \/ WriteTail
    \/ WriteTailOpenFails

SpecFaults == Init /\ [][NextFaults]_vars

(* NewDb on an empty directory with DbOptions.WorkerPoolSize = 2           *)
PoolWorkers == {1, 2}

InitPool ==
    /\ swap = NoSwap
    /\ index = NewDb(<<>>).index
    /\ segmentIndex = NewDb(<<>>).segmentIndex
    /\ segmentOffset = NewDb(<<>>).segmentOffset
    /\ segment = NewDb(<<>>).segment
    /\ dir = NewDb(<<>>).dir
    /\ isClosed = FALSE /\ writeChClosed = FALSE /\ mu = "free"
    /\ wpc = "recv" /\ wmsg = NoMsg
    /\ ppc = [p \in Putters |-> "idle"] /\ pkey = [p \in Putters |-> 0]
    /\ pval = [p \in Putters |-> 0] /\ pres = [p \in Putters |-> NoResult]
    /\ workerPool = <<1, 2>> /\ msgQueue = <<>>
    /\ msgQueueClosed = FALSE /\ qIsClosed = FALSE
    /\ chClosed = [w \in PoolWorkers |-> FALSE] /\ qmu = "free"
    /\ dpc = "recv" /\ dmsg = 0 /\ dworker = 0
    /\ wkpc = [w \in PoolWorkers |-> "recv"] /\ wkmsg = [w \in PoolWorkers |-> 0]
    /\ wkentry = [w \in PoolWorkers |-> NoEntry]
    /\ wkres = [w \in PoolWorkers |-> NoResult]
    /\ gpc = [g \in Getters |-> "idle"] /\ gkey = [g \in Getters |-> 0]
    /\ gres = [g \in Getters |-> NoResult]
    /\ mpc = "idle" /\ mst = MergeLocals /\ mres = NoResult
    /\ cpc = "idle" /\ cres = NoResult
    /\ panicked = FALSE
    /\ latest = [k \in Keys |-> 0] /\ acked = [k \in Keys |-> 0]
    /\ everPut = {} /\ count = 0
    /\ gfloor = [g \in Getters |-> FALSE] /\ gok = [g \in Getters |-> {}]
    /\ pristine = TRUE
    /\ seen = [k \in Keys |-> Unknown]
    /\ mghost = NoMergeGhost
    /\ torn = <<>>
    /\ rpc = "done" /\ rst = RecoverLocals /\ rres = Nil
    /\ InitBalancer

(* two concurrent callers of Get on an open Db with two workers that       *)
(* receives one Put                                                        *)
NextPool ==
    \/ \E k \in Keys, v \in Vals : everPut = {} /\ StartPut(1, k, v)
    \/ PutReturn(1)
    \/ WriteRecv(1)
    \/ WriteReply
    \/ WriteTail
    \/ \E g \in Getters : GetReturn(g)
    \/ \E g \in Getters, k \in Keys : StartGet(g, k)
    \/ \E g \in Getters : GetEnqueue(g)
    \/ DispRecv
    \/ DispLock
    \/ DispSleep
    \/ DispTake
    \/ DispSend
    \/ DispUnlock
    \/ \E w \in PoolWorkers : WorkerCheck(w)
    \/ \E w \in PoolWorkers : WorkerLookup(w)
    \/ \E w \in PoolWorkers : WorkerRead(w)
    \/ \E w \in PoolWorkers : WorkerReply(w)
    \/ \E w \in PoolWorkers : WorkerRegister(w)

SpecPool == InitPool /\ [][NextPool]_vars

(* a caller of Get and a caller of Merge that run concurrently, both       *)
(* called with the writer idle; Put is called only while neither runs      *)
NextMergeGet ==
    \/ \E k \in Keys, v \in Vals : ClientIdle /\ StartPut(1, k, v)
    \/ PutReturn(1)
    \/ WriteRecv(1)
    \/ WriteReply
    \/ WriteTail
    \/ \E k \in Keys : wpc = "recv" /\ ~InCall(ppc[1]) /\ StartGet(1, k)
    \/ GetEnqueue(1)
    \/ GetReturn(1)
    \/ DispRecv
    \/ DispLock
    \/ DispSleep
    \/ DispTake
    \/ DispSend
    \/ DispUnlock
    \/ \E w \in Workers : WorkerCheck(w)
    \/ \E w \in Workers : WorkerLookup(w)
    \/ \E w \in Workers : WorkerRead(w)
    \/ \E w \in Workers : WorkerReply(w)
    \/ \E w \in Workers : WorkerRegister(w)
    \/ wpc = "recv" /\ ~InCall(ppc[1]) /\ StartMerge
    \/ MergeCopyOpen
    \/ \E k \in Keys : MergeIter(k)
    \/ MergeGet
    \/ MergeIterEnd
    \/ MergeRename
    \/ MergeOpen
    \/ MergeInstall
    \/ MergeRemove
    \/ MergeReturn

SpecMergeGet == Init /\ [][NextMergeGet]_vars

(* db.recover on a directory a crash or an earlier session has left        *)
NextRecover ==
    \/ RecoverScan
    \/ RecoverOpen
    \/ RecoverPeek
    \/ RecoverRead
    \/ RecoverNext
    \/ RecoverLoad

SpecRecover == InitRecover /\ [][NextRecover]_vars

(* recover is one goroutine that runs until it returns                     *)
FairRecover == SpecRecover /\ WF_vars(NextRecover)

(* ---------------------------- load balancer --------------------------- *)
kvVars == <<dbVars, diskVars, writerVars, putVars, queueVars, dispVars, workerVars,
            getVars, mergeVars, closeVars, panicked, ghostVars, recoverVars>>

(* the addresses of the clients: three IPv4 hosts, one of them from two    *)
(* ports, and one IPv6 host                                                *)
Hosts == {<<87, 154, 128, 68>>, <<55, 234, 146, 40>>, <<93, 167, 203, 49>>}
HostV6 == <<8193, 3512, 34211, 0, 0, 35374, 880, 29492>>
RemoteAddrs == {[host |-> h, port |-> 8080] : h \in Hosts}
                   \cup {[host |-> <<87, 154, 128, 68>>, port |-> 2121],
                         [host |-> HostV6, port |-> 8080]}

(* hash[:8] of sha256.Sum256(ipv4)                                         *)
Sum256(ipv4) ==
    CASE ipv4 = <<87, 154, 128, 68>> -> <<138, 74, 24, 234, 19, 15, 85, 184>>
      [] ipv4 = <<55, 234, 146, 40>> -> <<164, 76, 108, 18, 20, 150, 1, 192>>
      [] ipv4 = <<93, 167, 203, 49>> -> <<60, 113, 1, 134, 245, 1, 171, 71>>
      [] ipv4 = <<196, 16, 10, 9>> -> <<141, 9, 66, 129, 52, 232, 192, 208>>
      [] ipv4 = <<106, 246, 220, 17>> -> <<171, 88, 103, 105, 33, 150, 87, 154>>

(* net.SplitHostPort drops the port; net.ParseIP and To4 accept four       *)
(* octets; the number is binary.BigEndian.Uint64 of the first eight bytes  *)
(* of the hash, kept as its bytes                                          *)
ipToHashNumber(ipStr) ==
    IF Len(ipStr.host) = 4 /\ \A i \in 1..4 : ipStr.host[i] \in 0..255
    THEN [err |-> FALSE, val |-> Sum256(ipStr.host)]
    ELSE [err |-> TRUE, val |-> NoSum]

(* number % n for the number whose big-endian bytes are b[1..k]            *)
RECURSIVE Uint64Mod(_, _, _)
Uint64Mod(b, k, n) ==
    IF k = 0 THEN 0 ELSE (Uint64Mod(b, k - 1, n) * 256 + b[k]) % n

(* forward: the response of dst, or 503 when the request to dst fails      *)
forward(dst) ==
    IF backendUp[dst] THEN Forwarded(dst) ELSE ServiceUnavailable(dst)

(* a backend stops answering                                               *)
BackendDown(s) ==
    /\ ~panicked
    /\ backendUp[s]
    /\ Cardinality({t \in Servers : ~backendUp[t]}) < MaxDown
    /\ backendUp' = [backendUp EXCEPT ![s] = FALSE]
    /\ UNCHANGED <<healthServersPool, hcpc, hci, checks, hpc, remoteAddr, hashSum,
                   serverIndex, hpool, hfirst, response>>
    /\ UNCHANGED kvVars

(* the ticker fires: healthServersPool = []string{}                        *)
HealthCheckReset ==
    /\ ~panicked
    /\ hcpc = "idle"
    /\ checks < MaxChecks
    /\ checks' = checks + 1
    /\ healthServersPool' = <<>>
    /\ hci' = 1
    /\ hcpc' = "range"
    /\ UNCHANGED <<backendUp, hpc, remoteAddr, hashSum, serverIndex, hpool, hfirst,
                   response>>
    /\ UNCHANGED kvVars

(* one iteration of the loop over serversPool: health(server) and the      *)
(* append                                                                  *)
HealthCheckServer ==
    /\ ~panicked
    /\ hcpc = "range"
    /\ healthServersPool' = IF backendUp[serversPool[hci]]
                            THEN Append(healthServersPool, serversPool[hci])
                            ELSE healthServersPool
    /\ hci' = hci + 1
    /\ hcpc' = IF hci = Len(serversPool) THEN "idle" ELSE "range"
    /\ UNCHANGED <<backendUp, checks, hpc, remoteAddr, hashSum, serverIndex, hpool,
                   hfirst, response>>
    /\ UNCHANGED kvVars

(* a request arrives: ip := r.RemoteAddr, ipToHashNumber(ip); on an error  *)
(* the handler returns                                                     *)
HandleHash(r, addr) ==
    /\ ~panicked
    /\ hpc[r] = "idle"
    /\ remoteAddr' = [remoteAddr EXCEPT ![r] = addr]
    /\ IF ipToHashNumber(addr).err
       THEN /\ hpc' = [hpc EXCEPT ![r] = "done"]
            /\ response' = [response EXCEPT ![r] = EmptyOK]
            /\ hashSum' = hashSum
       ELSE /\ hpc' = [hpc EXCEPT ![r] = "len"]
            /\ hashSum' = [hashSum EXCEPT ![r] = ipToHashNumber(addr).val]
            /\ response' = response
    /\ UNCHANGED <<healthServersPool, backendUp, hcpc, hci, checks, serverIndex,
                   hpool, hfirst>>
    /\ UNCHANGED kvVars

(* if len(healthServersPool) == 0: 502                                     *)
HandleLen(r) ==
    /\ ~panicked
    /\ hpc[r] = "len"
    /\ IF Len(healthServersPool) = 0
       THEN /\ hpc' = [hpc EXCEPT ![r] = "done"]
            /\ response' = [response EXCEPT ![r] = BadGateway]
       ELSE /\ hpc' = [hpc EXCEPT ![r] = "mod"]
            /\ response' = response
    /\ UNCHANGED <<healthServersPool, backendUp, hcpc, hci, checks, remoteAddr,
                   hashSum, serverIndex, hpool, hfirst>>
    /\ UNCHANGED kvVars

(* serverIndex := hashSum % uint64(len(healthServersPool)): the length is  *)
(* read again, and a division by zero panics                               *)
HandleMod(r) ==
    /\ ~panicked
    /\ hpc[r] = "mod"
    /\ IF Len(healthServersPool) = 0
       THEN /\ hpc' = [hpc EXCEPT ![r] = "done"]
            /\ response' = [response EXCEPT ![r] = Aborted]
            /\ serverIndex' = serverIndex
       ELSE /\ hpc' = [hpc EXCEPT ![r] = "slice"]
            /\ serverIndex' = [serverIndex EXCEPT
                                  ![r] = Uint64Mod(hashSum[r], 8, Len(healthServersPool))]
            /\ response' = response
    /\ UNCHANGED <<healthServersPool, backendUp, hcpc, hci, checks, remoteAddr,
                   hashSum, hpool, hfirst>>
    /\ UNCHANGED kvVars

(* healthServersPool[serverIndex], first half: the slice header is read    *)
(* without synchronisation, its array and its length in either order       *)
HandleSlice(r, first) ==
    /\ ~panicked
    /\ hpc[r] = "slice"
    /\ hpool' = [hpool EXCEPT ![r] = healthServersPool]
    /\ hfirst' = [hfirst EXCEPT ![r] = first]
    /\ hpc' = [hpc EXCEPT ![r] = "forward"]
    /\ UNCHANGED <<healthServersPool, backendUp, hcpc, hci, checks, remoteAddr,
                   hashSum, serverIndex, response>>
    /\ UNCHANGED kvVars

(* the array and the length the handler has once the other half is read    *)
ArrayRead(r) == IF hfirst[r] = "array" THEN hpool[r] ELSE healthServersPool
LenRead(r) == IF hfirst[r] = "array" THEN Len(healthServersPool) ELSE Len(hpool[r])

(* healthServersPool[serverIndex], second half, and forward: an index out  *)
(* of range panics; an index within the length and within the array gives  *)
(* the server to forward to                                                *)
HandleForward(r) ==
    /\ ~panicked
    /\ hpc[r] = "forward"
    /\ serverIndex[r] >= LenRead(r) \/ serverIndex[r] < Len(ArrayRead(r))
    /\ response' = [response EXCEPT
                       ![r] = IF serverIndex[r] >= LenRead(r)
                              THEN Aborted
                              ELSE forward(ArrayRead(r)[serverIndex[r] + 1])]
    /\ hpc' = [hpc EXCEPT ![r] = "done"]
    /\ UNCHANGED <<healthServersPool, backendUp, hcpc, hci, checks, remoteAddr,
                   hashSum, serverIndex, hpool, hfirst>>
    /\ UNCHANGED kvVars

(* healthServersPool[serverIndex], second half, with a length of one       *)
(* version of the slice and the array of a shorter one: the read is past   *)
(* the end of the array, and the handler crashes or forwards to no server  *)
HandleForwardTorn(r, out) ==
    /\ ~panicked
    /\ hpc[r] = "forward"
    /\ serverIndex[r] < LenRead(r)
    /\ serverIndex[r] >= Len(ArrayRead(r))
    /\ response' = [response EXCEPT ![r] = out]
    /\ hpc' = [hpc EXCEPT ![r] = "done"]
    /\ UNCHANGED <<healthServersPool, backendUp, hcpc, hci, checks, remoteAddr,
                   hashSum, serverIndex, hpool, hfirst>>
    /\ UNCHANGED kvVars

(* the load balancer: the ticker goroutine of main beside the handlers of  *)
(* two requests, with backends that can go down                            *)
NextBalancer ==
    \/ \E s \in Servers : BackendDown(s)
    \/ HealthCheckReset
    \/ HealthCheckServer
    \/ \E r \in Requests, addr \in RemoteAddrs : HandleHash(r, addr)
    \/ \E r \in Requests : HandleLen(r)
    \/ \E r \in Requests : HandleMod(r)
    \/ \E r \in Requests, first \in {"array", "len"} : HandleSlice(r, first)
    \/ \E r \in Requests : HandleForward(r)
    \/ \E r \in Requests, out \in {Aborted, ServiceUnavailable(0)} :
           HandleForwardTorn(r, out)

SpecBalancer == Init /\ [][NextBalancer]_vars

(* ------------------------------ properties ---------------------------- *)
(* the record the index entry e points at in the directory d, or the      *)
(* empty record when no record starts there                               *)
RecordAt(d, e) ==
    IF e.seg \in DOMAIN d /\ \E i \in 1..Len(d[e.seg]) : OffsetOf(d[e.seg], i) = e.off
    THEN d[e.seg][CHOOSE i \in 1..Len(d[e.seg]) : OffsetOf(d[e.seg], i) = e.off]
    ELSE Entry(0, 0)

(* C1: whenever the writer is idle, every key of the index maps to a       *)
(* (segment, offset) at which the segment file holds a record with that    *)
(* key and the value of the latest successful Put of the key; checked for  *)
(* the client that calls Put, Close and NewDb                              *)
C1_IndexPointsAtLatest ==
    wpc = "recv" =>
        \A k \in DOMAIN index : RecordAt(dir, index[k]) = Entry(k, acked[k])

(* C2: while no Merge and no Close was ever called, a Get of the           *)
(* sequential client on a key that was Put with success returns the value  *)
(* of the last such Put                                                    *)
C2_GetReturnsLastPut ==
    (pristine /\ gpc[1] = "done" /\ acked[gkey[1]] # 0) =>
        gres[1] = Ok(acked[gkey[1]])

(* C2: a Get has returned the second value Put on a key                    *)
C2_Witness ==
    /\ pristine /\ gpc[1] = "done" /\ count >= 2
    /\ \E k \in DOMAIN index : gkey[1] = k /\ DOMAIN index = {k}
                               /\ index[k].off > 0 /\ gres[1] = Ok(acked[k])

(* C3: a Get that began after a Put on its key had returned success        *)
(* returns, without error, the value of that Put or of a Put on the key    *)
(* that the writer wrote later                                             *)
C3_GetSeesPutOrLater ==
    \A g \in Getters :
        (gpc[g] = "done" /\ gfloor[g]) =>
            (gres[g].err = "nil" /\ gres[g].val \in gok[g])

(* C3: a Get returned the value of a Put written while it was running      *)
C3_Witness ==
    \E g \in Getters :
        /\ gpc[g] = "done" /\ gfloor[g]
        /\ Cardinality(gok[g]) = 2
        /\ gres[g] = Ok(latest[gkey[g]])

(* C4: once NewDb has run on the directory of a closed Db, a Get of a key  *)
(* written before returns what it returned before the Close, and NewDb     *)
(* succeeds on the directory a Close has left                              *)
C4_ReopenKeepsValues ==
    /\ \A k \in Keys : seen[k] # Unknown => GetValue(index, dir, k) = seen[k]
    /\ (CloseReturned /\ AtRest) => RecoverOk(dir)

(* C5: when Merge has returned nil and the writer was idle with no Put     *)
(* running when it was called, the directory holds the one file 0.seg      *)
(* with one record per key of the index Merge found, and the index maps    *)
(* each of these keys to segment 0                                         *)
C5_MergeLeavesOneSegment ==
    (mpc = "done" /\ mres = Nil /\ mghost.quiet) =>
        /\ DOMAIN dir = {0}
        /\ ~swap.exists
        /\ Len(dir[0]) = Cardinality(mghost.keys)
        /\ \A k \in mghost.keys :
              /\ \E i \in 1..Len(dir[0]) : dir[0][i].key = k
              /\ k \in DOMAIN index /\ index[k].seg = 0

(* C6: when Merge has returned nil, a Get of a key whose Put had returned  *)
(* success before Merge was called returns the value of that Put           *)
C6_MergeKeepsValues ==
    (mpc = "done" /\ mres = Nil /\ wpc = "recv") =>
        \A k \in Keys :
            mghost.acked[k] # 0 => GetValue(index, dir, k) = Ok(mghost.acked[k])

(* C7: the Gets of a key that ran while no Put on the key changed its      *)
(* value v all return v and no error, however many of them there are       *)
C7_ParallelGets ==
    \A k \in Keys, v \in Vals :
        \A g \in {h \in Getters : gpc[h] = "done" /\ gkey[h] = k /\ gok[h] = {v}} :
            gres[g] = Ok(v)

(* C7: more Gets than the pool has workers have returned the value of      *)
(* one key, each before any of the others went on                          *)
C7_Witness ==
    \E k \in Keys, v \in Vals :
        Cardinality({g \in Getters : gpc[g] = "done" /\ gkey[g] = k /\ gok[g] = {v}
                                     /\ gres[g] = Ok(v)}) > WorkerPoolSize

(* C8: a Get on an open Db of a key no Put was ever called with, in this   *)
(* session or an earlier one, returns ErrNotFound                          *)
C8_NeverPutNotFound ==
    (gpc[1] = "done" /\ ~isClosed /\ gkey[1] \notin everPut) => gres[1] = ErrNotFound

(* C8: such a Get has returned on a Db that holds records of other keys    *)
(* and was opened on a directory an earlier session had written            *)
C8_Witness ==
    /\ gpc[1] = "done" /\ ~isClosed /\ gkey[1] \notin everPut
    /\ gres[1] = ErrNotFound
    /\ DOMAIN index # {} /\ \E k \in Keys : seen[k] \notin {Unknown, ErrNotFound}

(* what Put, Get and Merge must leave alone on a closed Db                 *)
storeVars == <<dbVars, diskVars, writerVars, queueVars, dispVars, workerVars, panicked>>

(* C9: once Close has returned, a call of Put or Merge returns ErrDbClosed *)
(* and a call of Get ErrWorkerQueueIsClosed, in the step that begins it,   *)
(* and leaves the channels, the index and the files as they were           *)
C9_ClosedCallsRefused ==
    [][CloseReturned =>
        /\ (ppc[1] = "idle" /\ ppc'[1] # "idle") =>
              (ppc'[1] = "done" /\ pres'[1] = ErrDbClosed /\ UNCHANGED storeVars)
        /\ (gpc[1] = "idle" /\ gpc'[1] # "idle") =>
              (gpc'[1] = "done" /\ gres'[1] = ErrWorkerQueueIsClosed /\ UNCHANGED storeVars)
        /\ (mpc = "idle" /\ mpc' # "idle") =>
              (mpc' = "done" /\ mres' = ErrDbClosed /\ UNCHANGED storeVars)]_vars

(* C9: a Put was refused on a closed Db that holds a record                *)
C9_Witness ==
    /\ CloseReturned /\ ppc[1] = "done" /\ pres[1] = ErrDbClosed
    /\ DOMAIN index # {}

(* C10: a Close called once Close has returned returns nil in the step     *)
(* that begins it and changes nothing else                                 *)
C10_CloseIdempotent ==
    [][(CloseReturned /\ cpc = "idle" /\ cpc' # "idle") =>
          /\ cpc' = "closed" /\ cres' = Nil
          /\ UNCHANGED <<storeVars, putVars, getVars, mergeVars>>]_vars

(* C10: a second Close has returned nil                                    *)
C10_Witness ==
    /\ cpc = "closed" /\ cres = Nil
    /\ isClosed /\ writeChClosed /\ msgQueueClosed /\ ~segment.open /\ ~panicked

(* C11: no interleaving of a Put or a Get with Close sends on a closed     *)
(* write channel, request queue or worker inbox: the process never panics  *)
C11_NoAbortOnClose ==
    ~panicked

(* the bytes of all the segment files of the directory d                   *)
RECURSIVE DirLenOver(_, _)
DirLenOver(d, segs) ==
    IF segs = {} THEN 0
    ELSE LET i == CHOOSE j \in segs : TRUE
         IN FileLen(d[i]) + DirLenOver(d, segs \ {i})

DirLen(d) == DirLenOver(d, DOMAIN d)

(* C12: on a store that began empty, once every Put has returned and the   *)
(* records written exceed MaxSegmentSize bytes in all, the directory holds *)
(* at least two segment files                                              *)
C12_TwoSegmentsPastThreshold ==
    ((\A p \in Putters : ppc[p] \in {"idle", "done"}) /\ DirLen(dir) > MaxSegmentSize)
        => Cardinality(DOMAIN dir) >= 2

(* C13: when a caller of Put holds the reply nil, the writer has set the   *)
(* index entry of its key to a record of that key and has advanced the     *)
(* offset past the record                                                  *)
C13_ReplyAfterIndex ==
    \A p \in Putters :
        (ppc[p] = "done" /\ pres[p] = Nil) =>
            /\ ~(wpc = "tail" /\ wmsg.from = p)
            /\ pkey[p] \in DOMAIN index
            /\ RecordAt(dir, index[pkey[p]]).key = pkey[p]

(* C14: when a Merge that was called with the writer idle and no Put in    *)
(* flight has returned nil, and the Puts that ran beside it have returned  *)
(* and the writer is idle again, a Get of every key returns the value of   *)
(* the last Put of the key that returned nil                               *)
C14_MergeKeepsConcurrentPuts ==
    (/\ mpc = "done" /\ mres = Nil /\ mghost.quiet
     /\ wpc = "recv" /\ \A p \in Putters : ppc[p] \in {"idle", "done"}) =>
        \A k \in Keys : acked[k] # 0 => GetValue(index, dir, k) = Ok(acked[k])

(* C15: whenever the Db is open and the writer is idle, db.segmentOffset   *)
(* is the length of the file of the active segment; checked for the        *)
(* client that calls Put, Close and NewDb                                  *)
C15_OffsetIsFileLength ==
    (wpc = "recv" /\ segment.open /\ segment.linked /\ segmentIndex \in DOMAIN dir) =>
        segmentOffset = FileLen(dir[segmentIndex])

(* C16: when the write to the active segment fails, the caller of Put      *)
(* receives an error and no step of that write changes db.index,           *)
(* db.segmentOffset or db.segmentIndex; a write that succeeds is indexed   *)
(* at the segment id and offset the writer held when it received it        *)
C16_FailedWriteChangesNothing ==
    [][/\ (wpc = "recv" /\ wpc' = "reply" /\ wmsg'.err) =>
              UNCHANGED <<index, segmentOffset, segmentIndex>>
       /\ (wpc = "reply" /\ wmsg.err /\ wpc' = "tail") =>
              /\ ppc'[wmsg.from] = "done"
              /\ pres'[wmsg.from] \notin {Nil, NoResult}
              /\ UNCHANGED <<index, segmentOffset, segmentIndex>>
       /\ (wpc = "tail" /\ wmsg.err /\ wpc' = "recv") =>
              UNCHANGED <<index, segmentOffset, segmentIndex>>
       /\ (wpc = "tail" /\ ~wmsg.err /\ wpc' = "recv") =>
              index'[wmsg.key] = hashEntry(segmentIndex, segmentOffset)]_vars

(* the second Put of the client has returned nil and is indexed at offset  *)
(* 0 of segment 0, which holds one record: the first Put failed and left   *)
(* the offset where it was                                                 *)
C16_Witness ==
    /\ count = 2
    /\ ppc[1] = "done"
    /\ pres[1] = Nil
    /\ wpc = "recv"
    /\ segment.open
    /\ segmentIndex = 0
    /\ Len(dir[0]) = 1
    /\ pkey[1] \in DOMAIN index
    /\ index[pkey[1]] = hashEntry(0, 0)

(* C17: after any sequence of Puts and Merges, once the calls have         *)
(* returned and the writer is idle, the segment files on disk are exactly  *)
(* the ids 0..db.segmentIndex                                              *)
C17_SegmentsAreZeroToActive ==
    (wpc = "recv" /\ mpc = "idle" /\ \A p \in Putters : ppc[p] \in {"idle", "done"}) =>
        DOMAIN dir = 0..segmentIndex

(* C18: when the rollover cannot open the new segment, the Put that        *)
(* triggered it has been answered nil and its key is indexed at its record *)
(* in the old segment; every write received while the active segment id    *)
(* has no file fails and its caller receives an error; no index entry ever *)
(* names a segment that has no file                                        *)
C18_FailedRolloverSurfacesOnNextPut ==
    [][/\ (wpc = "tail" /\ segmentIndex' = segmentIndex + 1
                        /\ segmentIndex' \notin DOMAIN dir') =>
              /\ acked[wmsg.key] = wmsg.val
              /\ wmsg.key \in DOMAIN index'
              /\ index'[wmsg.key] = hashEntry(segmentIndex, segmentOffset)
              /\ RecordAt(dir', index'[wmsg.key]) = Entry(wmsg.key, wmsg.val)
       /\ (segmentIndex \notin DOMAIN dir /\ wpc = "recv" /\ wpc' = "reply") =>
              wmsg'.err
       /\ (segmentIndex \notin DOMAIN dir /\ wpc = "reply" /\ wpc' = "tail") =>
              /\ ppc'[wmsg.from] = "done"
              /\ pres'[wmsg.from] \notin {Nil, NoResult}
       /\ \A k \in DOMAIN index' : index'[k].seg \in DOMAIN dir']_vars

(* the new segment could not be opened after a Put that is indexed in the  *)
(* old segment, and the Put after it has returned an error                 *)
C18_Witness ==
    /\ segmentIndex \notin DOMAIN dir
    /\ ppc[1] = "done"
    /\ pres[1] = Err("failed to put")
    /\ wpc = "recv"
    /\ \E k \in DOMAIN index : index[k].seg = segmentIndex - 1

(* a record of key k lies in the log d after the place e                   *)
LaterRecord(d, e, k) ==
    \E seg \in DOMAIN d : \E i \in 1..Len(d[seg]) :
        /\ d[seg][i].key = k
        /\ seg > e.seg \/ (seg = e.seg /\ OffsetOf(d[seg], i) > e.off)

(* C19: the writer handles one message at a time; the record of the        *)
(* message it receives becomes the last record of the log, at the tracked  *)
(* offset, which then grows or restarts at 0 in the next segment; and      *)
(* whenever the writer is idle the index entry of every key is the last    *)
(* record of the key in the log, holding the value received last           *)
C19_WritesInReceiveOrder ==
    [][/\ (wpc = "recv" /\ wpc' = "reply") =>
              /\ \A seg \in DOMAIN dir : seg <= segmentIndex
              /\ dir' = [dir EXCEPT ![segmentIndex] =
                                     Append(@, Entry(wmsg'.key, wmsg'.val))]
              /\ OffsetOf(dir'[segmentIndex], Len(dir'[segmentIndex])) = segmentOffset
       /\ (wpc = "tail" /\ wpc' = "recv") =>
              /\ index'[wmsg.key] = hashEntry(segmentIndex, segmentOffset)
              /\ \/ segmentIndex' = segmentIndex /\ segmentOffset' > segmentOffset
                 \/ segmentIndex' = segmentIndex + 1 /\ segmentOffset' = 0
       /\ wpc' = "recv" =>
              \A k \in Keys : latest'[k] # 0 =>
                  /\ k \in DOMAIN index'
                  /\ RecordAt(dir', index'[k]) = Entry(k, latest'[k])
                  /\ ~LaterRecord(dir', index'[k], k)]_vars

(* both callers have put the same key, the two records lie one after the   *)
(* other in segment 0 and the index names the second                       *)
C19_Witness ==
    /\ wpc = "recv"
    /\ ppc[1] = "done" /\ ppc[2] = "done"
    /\ pkey[1] = pkey[2]
    /\ Len(dir[0]) = 2
    /\ pkey[1] \in DOMAIN index
    /\ index[pkey[1]] = hashEntry(0, RecSize(dir[0][1]))

(* C20: a write that succeeds makes the file of the active segment longer *)
(* by exactly the size of its record, which becomes the last record, also  *)
(* when the key is already in the file; no step of a Put removes a file or *)
(* changes what a file already holds                                       *)
C20_PutOnlyAppends ==
    [][/\ \A seg \in DOMAIN dir :
              /\ seg \in DOMAIN dir'
              /\ Len(dir'[seg]) >= Len(dir[seg])
              /\ SubSeq(dir'[seg], 1, Len(dir[seg])) = dir[seg]
       /\ (wpc = "recv" /\ wpc' = "reply" /\ ~wmsg'.err) =>
              /\ FileLen(dir'[segment.seg]) =
                     FileLen(dir[segment.seg]) + EntrySize(wmsg'.key, wmsg'.val)
              /\ Len(dir'[segment.seg]) = Len(dir[segment.seg]) + 1
              /\ dir'[segment.seg][Len(dir'[segment.seg])] = Entry(wmsg'.key, wmsg'.val)
              /\ \A seg \in DOMAIN dir' : seg # segment.seg => dir'[seg] = dir[seg]
       /\ ~(wpc = "recv" /\ wpc' = "reply") =>
              \A seg \in DOMAIN dir : dir'[seg] = dir[seg]]_vars

(* the same Put has been written twice with no rollover in between: the    *)
(* active segment holds the record twice and is twice as long as after the *)
(* first                                                                   *)
C20_Witness ==
    /\ wpc = "reply"
    /\ segment.seg \in DOMAIN dir
    /\ Len(dir[segment.seg]) = 2
    /\ dir[segment.seg][1] = dir[segment.seg][2]
    /\ FileLen(dir[segment.seg]) = 2 * EntrySize(wmsg.key, wmsg.val)

(* every record of the directory is shorter than the buffer of recover     *)
SmallRecords(d) ==
    \A seg \in DOMAIN d : \A i \in 1..Len(d[seg]) : RecSize(d[seg][i]) < recoverbufferSize

(* some segment file ends in a torn tail, and every torn tail holds the    *)
(* 4 bytes of its declared size                                            *)
SomeTorn(t) ==
    /\ \E seg \in DOMAIN t : t[seg] # NoTorn
    /\ \A seg \in DOMAIN t : t[seg] # NoTorn => t[seg].have >= 4

(* C21: when recover is over on a directory of segments 0..max of which    *)
(* some end in a torn tail whose declared size exceeds the bytes that      *)
(* remain, it has returned nil and the index is the replay of the whole    *)
(* records of every segment                                                *)
C21_TornTailStopsCleanly ==
    (rpc = "done" /\ RecoverOk(dir) /\ SmallRecords(dir) /\ SomeTorn(torn)) =>
        (rres = Nil /\ index = RecoverIndex(dir))

(* C22: on a directory whose segment files hold whole records only,        *)
(* recover returns; when its Peek finds no bytes left, at the end of a     *)
(* segment or on an empty one, the inner loop ends and the outer loop goes *)
(* on with the next segment                                                *)
C22_RecoverTerminates ==
    /\ (\A seg \in DOMAIN torn : torn[seg] = NoTorn) ~> (rpc = "done")
    /\ [][(rpc = "peek" /\ Remaining(dir[rst.i], TornOf(torn, rst.i), rst.pos) = 0) =>
              (rpc' = "next" /\ UNCHANGED <<index, segmentOffset, segmentIndex>>)]_vars

(* recover has returned nil after an empty segment 0 and a segment 1 whose *)
(* records it has indexed                                                  *)
C22_Witness ==
    /\ rpc = "done"
    /\ rres = Nil
    /\ rst.last = 1
    /\ dir[0] = <<>>
    /\ Len(dir[1]) = 2
    /\ \E k \in DOMAIN index : index[k].seg = 1

(* the keys that have a record in the directory d                          *)
KeysIn(d) == UNION {{d[seg][i].key : i \in 1..Len(d[seg])} : seg \in DOMAIN d}

(* C23: when NewDb's recover is over on a directory of segments 0..max of  *)
(* whole records (or of no segment), it has returned nil, the active       *)
(* segment is max (0 if there was none), and the index holds exactly the   *)
(* keys of the directory, each at its last record in the highest segment   *)
(* that has one                                                            *)
C23_RecoverIndexesLastRecords ==
    (rpc = "done" /\ RecoverOk(dir) /\ \A seg \in DOMAIN torn : torn[seg] = NoTorn) =>
        /\ rres = Nil
        /\ segmentIndex = RecoverSegment(dir)
        /\ segment = Handle(segmentIndex)
        /\ DOMAIN index = KeysIn(dir)
        /\ \A k \in DOMAIN index :
              /\ RecordAt(dir, index[k]).key = k
              /\ ~LaterRecord(dir, index[k], k)

(* C24: no step of Merge up to its rename changes db.index,                *)
(* db.segmentIndex, db.segmentOffset, db.segment or a segment file; the    *)
(* step in which Copy fails removes the swap file and gives Merge an error *)
(* to return                                                               *)
C24_FailedCopyChangesNothing ==
    [][/\ (mpc \in {"copy", "iter", "get"} /\ (mpc' # mpc \/ mst' # mst \/ swap' # swap)) =>
              UNCHANGED <<index, segmentIndex, segmentOffset, segment, dir>>
       /\ (mpc \in {"iter", "get"} /\ mpc' = "done") =>
              /\ mres' \notin {Nil, NoResult}
              /\ ~swap'.exists
              /\ swap'.recs = <<>>]_vars

(* Copy has failed after it had written a record to the swap file: Merge   *)
(* holds the error, the swap file is gone and the index still has its      *)
(* entries                                                                 *)
C24_Witness ==
    /\ mpc = "done"
    /\ mres = ErrIO
    /\ mst.done # {}
    /\ ~swap.exists
    /\ index # <<>>
    /\ \A k \in DOMAIN index : RecordAt(dir, index[k]).key = k

(* the handles on segment files that are open for writing: db.segment,    *)
(* and the segment Merge has opened and not yet installed as db.segment    *)
WriteHandles ==
    {h \in {"db.segment"} : segment.open}
        \cup {h \in {"Merge.segment"} : mpc = "install" /\ mst.segment.open}

(* C25: in every state, the steps of rollover and of Merge included, at    *)
(* most one segment file is open for writing                               *)
C25_OneSegmentOpenForWriting == Cardinality(WriteHandles) <= 1

(* the callers of Get whose request a worker holds: handed over by the     *)
(* dispatcher and not yet answered                                         *)
InWorker ==
    {g \in Getters : /\ gpc[g] = "wait"
                     /\ dmsg # g
                     /\ \A i \in 1..Len(msgQueue) : msgQueue[i] # g}

(* C26: in every state at most WorkerPoolSize requests of Get are with the *)
(* workers, at most WorkerPoolSize workers hold a file open for reading,   *)
(* and q.workerPool holds at most WorkerPoolSize inboxes                   *)
C26_PoolBoundsReads ==
    /\ Cardinality(InWorker) <= WorkerPoolSize
    /\ Cardinality({w \in Workers : wkpc[w] = "read"}) <= WorkerPoolSize
    /\ Len(workerPool) <= WorkerPoolSize

(* more callers than workers: one request is with the worker, the free     *)
(* list is empty and the other request waits in q.msgQueue                 *)
C26_Witness ==
    /\ Cardinality(InWorker) = WorkerPoolSize
    /\ \E w \in Workers : wkpc[w] = "read"
    /\ workerPool = <<>>
    /\ Len(msgQueue) = 1
    /\ \A g \in Getters : gpc[g] = "wait"

(* C27: on the open store, with more callers of Get than workers and than *)
(* places in q.msgQueue, every call of Get that has passed the check of    *)
(* q.isClosed receives its reply                                           *)
C27_EveryGetIsAnswered ==
    \A g \in Getters : (gpc[g] = "enqueue") ~> (gpc[g] = "done")

(* the second caller has its reply after it waited for room in q.msgQueue  *)
(* behind the first, whose request the only worker held                    *)
C27_Witness ==
    /\ gpc[1] = "done"
    /\ gpc[2] = "done"
    /\ gres[1].err # "pending"
    /\ gres[2].err # "pending"
    /\ workerPool = <<1>>

(* C28: once Close has returned and the dispatcher has ended, a worker     *)
(* that waits on its inbox finds it closed and ends: no worker is left     *)
(* waiting on an inbox nobody will send to or close                        *)
C28_WorkersEndAfterClose ==
    (CloseReturned /\ dpc = "done" /\ \A g \in Getters : gpc[g] \in {"idle", "done"}) =>
        \A w \in Workers : wkpc[w] = "recv" => chClosed[w]

(* C29: no step of a Get (the call, the hand-over by the dispatcher, the   *)
(* lookup and the read of the worker, the reply) changes db.index,         *)
(* db.segmentIndex, db.segmentOffset, db.segment or a segment file,        *)
(* whether the Get finds a value, no entry or a read error                 *)
C29_GetChangesNothing ==
    [][(~UNCHANGED getVars \/ ~UNCHANGED dispVars \/ ~UNCHANGED workerVars
            \/ ~UNCHANGED queueVars) =>
          UNCHANGED <<index, segmentIndex, segmentOffset, segment, dir>>]_vars

(* a Get has returned a read error and the index still holds the entry of  *)
(* its key, which names the key's record                                   *)
C29_Witness ==
    \E g \in Getters :
        /\ gpc[g] = "done"
        /\ gres[g] = ErrIO
        /\ gkey[g] \in DOMAIN index
        /\ RecordAt(dir, index[gkey[g]]).key = gkey[g]

(* C30: a Get that ran beside a Merge, with no Put in flight during        *)
(* either, has returned the value of the last Put of its key, or           *)
(* ErrNotFound when the key was never put                                  *)
C30_GetBesideMerge ==
    \A g \in Getters :
        gpc[g] = "done" =>
            gres[g] = IF latest[gkey[g]] # 0 THEN Ok(latest[gkey[g]]) ELSE ErrNotFound

(* the places that hold the request of the caller g: q.msgQueue, the       *)
(* dispatcher, the workers                                                 *)
PlacesOf(q, d, wm, g) ==
    Cardinality({i \in 1..Len(q) : q[i] = g})
        + (IF d = g THEN 1 ELSE 0)
        + Cardinality({w \in DOMAIN wm : wm[w] = g})

(* C31: a request that was enqueued and not yet answered is in exactly one *)
(* place, q.msgQueue, the dispatcher or one worker, and an answered one in *)
(* none; the reply is what db.get gives for the caller's own key; an inbox *)
(* is in q.workerPool at most once and only while its worker waits on it;  *)
(* a send appends to q.msgQueue, the dispatcher takes its head and hands   *)
(* that message to the worker whose inbox it took                          *)
C31_OneWorkerOneReplyInOrder ==
    [][/\ \A g \in Getters :
              /\ PlacesOf(msgQueue', dmsg', wkmsg', g) = (IF gpc'[g] = "wait" THEN 1 ELSE 0)
              /\ gpc'[g] = "done" =>
                    \/ gres'[g] = ErrNotFound
                    \/ latest'[gkey'[g]] # 0 /\ gres'[g] = Ok(latest'[gkey'[g]])
       /\ \A i \in 1..Len(workerPool') :
              /\ wkpc'[workerPool'[i]] = "recv"
              /\ wkmsg'[workerPool'[i]] = 0
              /\ \A j \in 1..Len(workerPool') : workerPool'[i] = workerPool'[j] => i = j
       /\ msgQueue' # msgQueue =>
              \/ \E g \in Getters : gpc[g] = "enqueue" /\ msgQueue' = Append(msgQueue, g)
              \/ /\ dpc = "recv"
                 /\ dmsg' = Head(msgQueue)
                 /\ msgQueue' = Tail(msgQueue)
       /\ (dpc = "send" /\ dpc' = "unlock") =>
              /\ wkmsg[dworker] = 0
              /\ wkmsg' = [wkmsg EXCEPT ![dworker] = dmsg]
       /\ \A g \in Getters : (gpc[g] = "wait" /\ gpc'[g] = "done") =>
              \E w \in DOMAIN wkmsg : wkmsg[w] = g /\ wkmsg'[w] = 0 /\ gres'[g] = wkres[w]]_vars

(* both workers hold a request, each of another caller and of another key, *)
(* and the free list is empty                                              *)
C31_Witness ==
    /\ wkmsg = <<1, 2>>
    /\ wkpc[1] = "reply" /\ wkpc[2] = "reply"
    /\ gkey[1] # gkey[2]
    /\ wkres[1] # wkres[2]
    /\ workerPool = <<>>
    /\ gpc = <<"wait", "wait">>

(* the backend that serves the address a while all of serversPool is     *)
(* healthy                                                                 *)
BackendOf(a) ==
    serversPool[Uint64Mod(ipToHashNumber(a).val, 8, Len(serversPool)) + 1]

(* C32: while every backend stays healthy, a request from an IPv4 address  *)
(* is answered by the backend at hash(ip) mod the number of backends, so   *)
(* all requests of one address by the same one, also while the health      *)
(* check rebuilds healthServersPool: never 502, never another backend      *)
C32_SameBackendBesideHealthCheck ==
    (\A s \in Servers : backendUp[s]) =>
        \A r \in Requests :
            (hpc[r] = "done" /\ ~ipToHashNumber(remoteAddr[r]).err) =>
                response[r] = Forwarded(BackendOf(remoteAddr[r]))

====
